---- MODULE Spec2Model ----
(***************************************************************************)
(* Stream resolution core of mcp-omega: the Real-Debrid and TorBox         *)
(* adapters (app/services/realdebrid.py, app/services/torbox.py), the      *)
(* candidate scorer (app/utils/parser.py) and the mapping of an adapter's  *)
(* return value to the JSON-RPC answer (app/api/mcp.py).                   *)
(*                                                                         *)
(* Conventions                                                             *)
(*  - Python None is NoneStr for strings and NoneInt for integers; an      *)
(*    Optional[set] is a record [known, ids].                              *)
(*  - File sizes are counted in MiB (integers are 32 bit here), so one GiB *)
(*    is MiBPerGiB.                                                        *)
(*  - realdebrid.py passes exclude_eac3 twice to score_file (lines 137 and *)
(*    138); the call is modelled with the argument passed once.            *)
(*  - Each adapter's resolve_stream is entered with its declared           *)
(*    parameters.                                                          *)
(*  - An exception raised by the HTTP client or by decoding an answer is   *)
(*    the answer kind "exc".                                               *)
(***************************************************************************)
EXTENDS Integers, Sequences, FiniteSets, TLC

VARIABLES
    call,      \* per resolve call: its arguments, locals and result
    torrent,   \* the file list of the torrent behind the info-hash, <<>> until a provider has shown it
    scope,     \* which torrents and provider behaviours the run ranges over
    rpc        \* the tools/call request handle_json_rpc is working on outside the adapters

vars == <<call, torrent, scope, rpc>>

NoneStr == "None"
NoneInt == -1

(***************************************************************************)
(* Strings                                                                 *)
(***************************************************************************)
UpperAlpha == "ABCDEFGHIJKLMNOPQRSTUVWXYZ"
LowerAlpha == "abcdefghijklmnopqrstuvwxyz"

LowerChar(c) ==
    IF \E i \in 1..26 : SubSeq(UpperAlpha, i, i) = c
    THEN LET i == CHOOSE j \in 1..26 : SubSeq(UpperAlpha, j, j) = c
         IN  SubSeq(LowerAlpha, i, i)
    ELSE c

RECURSIVE lower(_)
lower(s) ==
    IF Len(s) = 0 THEN ""
    ELSE LowerChar(SubSeq(s, 1, 1)) \o lower(SubSeq(s, 2, Len(s)))

\* Python's  sub in s
Contains(s, sub) ==
    \E i \in 1..(Len(s) - Len(sub) + 1) : SubSeq(s, i, i + Len(sub) - 1) = sub

\* any(x in s for x in subs)
AnyIn(s, subs) == \E x \in subs : Contains(s, x)

\* str.endswith
EndsWith(s, suf) ==
    Len(s) >= Len(suf) /\ SubSeq(s, Len(s) - Len(suf) + 1, Len(s)) = suf

\* f"{n:02d}" for a non-negative n
Pad2(n) == IF n < 10 THEN "0" \o ToString(n) ELSE ToString(n)

Min(a, b) == IF a < b THEN a ELSE b

\* the function f with every value computed when f is defined
Eager(f) == f @@ [x \in {} |-> 0]

(***************************************************************************)
(* Candidate scorer (VideoParser)                                          *)
(***************************************************************************)
MiBPerGiB == 1024

\* a variant that takes 720p for 1080p and 1080p for 720p
get_quality_swapped(filename) ==
    LET f == lower(filename) IN
    IF AnyIn(f, {"2160p", "4k", "uhd"}) THEN "4K"
    ELSE IF Contains(f, "1080p") THEN "720p"
    ELSE IF Contains(f, "720p") THEN "1080p"
    ELSE IF Contains(f, "480p") THEN "480p"
    ELSE "Unknown"

get_quality(filename) ==
    LET f == lower(filename) IN
    IF AnyIn(f, {"2160p", "4k", "uhd"}) THEN "4K"
    ELSE IF Contains(f, "1080p") THEN "1080p"
    ELSE IF Contains(f, "720p") THEN "720p"
    ELSE IF Contains(f, "480p") THEN "480p"
    ELSE "Unknown"

get_codecs(filename) ==
    LET f == lower(filename) IN
    (IF AnyIn(f, {"hevc", "h265", "x265"}) THEN {"hevc"} ELSE {})
    \cup (IF AnyIn(f, {"av1"}) THEN {"av1"} ELSE {})
    \cup (IF AnyIn(f, {"h264", "x264", "avc"}) THEN {"h264"} ELSE {})

get_audio(filename) ==
    LET f == lower(filename) IN
    (IF AnyIn(f, {"atmos"}) THEN {"atmos"} ELSE {})
    \cup (IF AnyIn(f, {"dts-hd", "dts:x", "dtsx"}) THEN {"dts-x"} ELSE {})
    \cup (IF AnyIn(f, {"truehd"}) THEN {"truehd"} ELSE {})
    \cup (IF AnyIn(f, {"eac3", "ddp", "dd+", "dolby digital plus"}) THEN {"eac3"} ELSE {})
    \cup (IF AnyIn(f, {"ac3", "dd5.1"}) THEN {"ac3"} ELSE {})
    \cup (IF AnyIn(f, {"aac"}) THEN {"aac"} ELSE {})

get_hdr(filename) ==
    LET f == lower(filename) IN
    (IF AnyIn(f, {"dv", "dovi", "dolby vision"}) THEN {"dolby_vision"} ELSE {})
    \cup (IF AnyIn(f, {"hdr10+", "hdr10plus"}) THEN {"hdr10+"}
          ELSE IF AnyIn(f, {"hdr", "hdr10"}) THEN {"hdr10"} ELSE {})

get_source(filename) ==
    LET f == lower(filename) IN
    IF AnyIn(f, {"remux", "bdremux"}) THEN "remux"
    ELSE IF AnyIn(f, {"bluray", "bdrip", "brrip"}) THEN "bluray"
    ELSE IF AnyIn(f, {"webdl", "web-dl", "webrip", "hbo", "amzn", "nf"}) THEN "web"
    ELSE IF AnyIn(f, {"hdtv"}) THEN "hdtv"
    ELSE IF AnyIn(f, {"cam", "ts", "telesync", "camrip"}) THEN "cam"
    ELSE "unknown"

\* the hard filters of score_file: the file is answered -1000
HardExcluded(filename, exclude_hevc, exclude_eac3, exclude_dolby_vision) ==
    LET f == lower(filename) IN
    \/ exclude_hevc /\ AnyIn(f, {"hevc", "h265", "x265"})
    \/ exclude_eac3 /\ AnyIn(f, {"eac3", "ddp", "dd+", "atmos"})
    \/ exclude_dolby_vision /\ AnyIn(f, {"dv", "dovi", "dolby vision", "hdr10+"})

\* the garbage filter of score_file: the file is answered -500
Junk(filename) == AnyIn(lower(filename), {"cam", "ts", "telesync", "camrip", "sample"})

\* a variant whose size factor has no cap
score_file_uncapped(filename, size_mib, exclude_hevc, exclude_eac3, exclude_dolby_vision) ==
    LET f       == lower(filename)
        quality == get_quality(f)
        source  == get_source(f)
        audio   == get_audio(f)
        hdr     == get_hdr(f)
        q == IF quality = "4K" THEN 200
             ELSE IF quality = "1080p" THEN 100
             ELSE IF quality = "720p" THEN 50 ELSE 0
        s == IF source = "remux" THEN 100
             ELSE IF source = "bluray" THEN 80
             ELSE IF source = "web" THEN 50 ELSE 0
        a == IF audio \cap {"atmos", "truehd", "dts-x"} # {} THEN 40
             ELSE IF "eac3" \in audio THEN 20 ELSE 0
        h == (IF "dolby_vision" \in hdr THEN 50 ELSE 0)
             + (IF hdr \cap {"hdr10", "hdr10+"} # {} THEN 30 ELSE 0)
    IN
    IF HardExcluded(filename, exclude_hevc, exclude_eac3, exclude_dolby_vision)
    THEN -1000
    ELSE IF Junk(filename) THEN -500
    ELSE q + s + a + h + size_mib \div MiBPerGiB

score_file(filename, size_mib, exclude_hevc, exclude_eac3, exclude_dolby_vision) ==
    LET f       == lower(filename)
        quality == get_quality(f)
        source  == get_source(f)
        audio   == get_audio(f)
        hdr     == get_hdr(f)
        q == IF quality = "4K" THEN 200
             ELSE IF quality = "1080p" THEN 100
             ELSE IF quality = "720p" THEN 50 ELSE 0
        s == IF source = "remux" THEN 100
             ELSE IF source = "bluray" THEN 80
             ELSE IF source = "web" THEN 50 ELSE 0
        a == IF audio \cap {"atmos", "truehd", "dts-x"} # {} THEN 40
             ELSE IF "eac3" \in audio THEN 20 ELSE 0
        h == (IF "dolby_vision" \in hdr THEN 50 ELSE 0)
             + (IF hdr \cap {"hdr10", "hdr10+"} # {} THEN 30 ELSE 0)
    IN
    IF HardExcluded(filename, exclude_hevc, exclude_eac3, exclude_dolby_vision)
    THEN -1000
    ELSE IF Junk(filename) THEN -500
    ELSE q + s + a + h + Min(size_mib \div MiBPerGiB, 50)

\* score_file called with any size_bytes argument: kind "int" is a number of
\* mib MiB, "absent" the argument left out (default 0), "null" None and
\* "str" a string of digits.  size_bytes is first used in the division of
\* the size factor, which raises TypeError for None and for a string.
score_call(filename, size, exclude_hevc, exclude_eac3, exclude_dolby_vision) ==
    IF size.kind \in {"int", "absent"}
    THEN [raised |-> NoneStr,
          value |-> score_file(filename, IF size.kind = "int" THEN size.mib ELSE 0,
                               exclude_hevc, exclude_eac3, exclude_dolby_vision)]
    ELSE IF HardExcluded(filename, exclude_hevc, exclude_eac3, exclude_dolby_vision)
    THEN [raised |-> NoneStr, value |-> -1000]
    ELSE IF Junk(filename) THEN [raised |-> NoneStr, value |-> -500]
    ELSE [raised |-> "TypeError", value |-> 0]

(***************************************************************************)
(* Bounds and input domains                                                *)
(***************************************************************************)
\* most files in the torrent behind the info-hash
MaxFiles == 2

Procs == {1, 2}
\* a provider numbers the files of a torrent from 0 or from 1
IdBases == {0, 1}

\* name and size (MiB) of the files a torrent can hold
Catalog ==
    { [name |-> "Show.S01E01.720p.mkv",       size |-> 3072],
      [name |-> "Show.S01E02.1080p.mkv",      size |-> 2048],
      [name |-> "Show.S01E02.720p.x265.mkv",  size |-> 1024],
      [name |-> "Show.S01E02.CAM.mkv",        size |-> 700],
      [name |-> "Show.1x02.2160p.DV.DDP.mkv", size |-> 4096],
      [name |-> "Show.S01E02.nfo",            size |-> 1] }

\* files of a season whose episode numbers start alike: episodes 2, 20 and
\* 21 of season 1, episode 2 of season 11, episode 3 of season 1
EpisodeCatalog ==
    { [name |-> "Show.S1E20.mkv",  size |-> 900],
      [name |-> "Show.S1E21.mkv",  size |-> 800],
      [name |-> "Show.11x2.mkv",   size |-> 700],
      [name |-> "Show.S01E03.mkv", size |-> 600],
      [name |-> "Show.S1E2.mkv",   size |-> 500] }

CatalogNames == { c.name : c \in Catalog \cup EpisodeCatalog }

\* provider listings: 1..MaxFiles files of the catalog, numbered in list
\* order. Both adapters order the files by score or by size themselves, so
\* the listing order decides ties only; listings are taken largest file
\* first, a tie being a file listed twice.
Listings ==
    UNION { { [i \in 1..n |-> [id |-> b + i - 1, name |-> l[i].name, size |-> l[i].size]] :
                l \in { m \in [1..n -> Catalog] :
                          \A i \in 1..(n - 1) : m[i].size >= m[i + 1].size },
                b \in IdBases }
            : n \in 1..MaxFiles }

\* the listings of one or two different files of the season, largest first,
\* numbered from 1
EpisodeListings ==
    { <<[id |-> 1, name |-> f.name, size |-> f.size]>> : f \in EpisodeCatalog }
    \cup { << [id |-> 1, name |-> q[1].name, size |-> q[1].size],
              [id |-> 2, name |-> q[2].name, size |-> q[2].size] >> :
             q \in { r \in EpisodeCatalog \X EpisodeCatalog : r[2].size < r[1].size } }

\* the listings of the two-call and the liveness specifications
SmallListings ==
    { << [id |-> 1, name |-> "Show.S01E01.720p.mkv", size |-> 3072],
         [id |-> 2, name |-> "Show.S01E02.1080p.mkv", size |-> 2048] >> }

InfoHash == "abc123"
\* a magnet argument naming another torrent than info_hash does, and the
\* file list of that torrent
ForeignMagnet == "magnet:?xt=urn:btih:fff999"
ForeignListing == << [id |-> 1, name |-> "Show.S01E01.720p.mkv", size |-> 3072] >>
Magnets == {"", "magnet:?xt=urn:btih:abc123&dn=Show"}
ApiKeys == {"", "key"}
\* (season, episode) of a request; NoneInt when absent
Targets == { <<NoneInt, NoneInt>>, <<1, 2>> }
\* ids the availability answer can name (keys are strings)
CachedIdPool == {"1"}

(***************************************************************************)
(* Sequences                                                               *)
(***************************************************************************)
Range(s) == { s[i] : i \in 1..Len(s) }

\* list.sort(key=Key, reverse=True): descending, stable
SortDesc(s, Key(_)) ==
    LET n == Len(s)
        rank(i) == Cardinality({ j \in 1..n :
                        \/ Key(s[j]) > Key(s[i])
                        \/ Key(s[j]) = Key(s[i]) /\ j < i }) + 1
    IN  [r \in 1..n |-> s[CHOOSE i \in 1..n : rank(i) = r]]

FileSize(f) == f.size

\* Python truthiness of an id taken from a JSON object
Truthy(id) == id # NoneInt /\ id # 0

(***************************************************************************)
(* File selection                                                          *)
(***************************************************************************)
VideoExtensions == {".mp4", ".mkv", ".avi", ".mov", ".webm"}

\* f.get(name).lower().endswith(VideoExtensions)
IsVideoName(name) == \E e \in VideoExtensions : EndsWith(lower(name), e)

\* IsVideoName of the catalog names, evaluated once
VideoMemo == Eager([n \in CatalogNames |-> IsVideoName(n)])

IsVideo(f) == VideoMemo[f.name]

\* [f for f in files if f.get(name).lower().endswith(...)]
VideoFiles(files) == SelectSeq(files, IsVideo)

\* the four episode patterns; every one is searched case-insensitively
regex_list(season, episode) ==
    { "S" \o Pad2(season) \o "E" \o Pad2(episode),
      "S" \o ToString(season) \o "E" \o ToString(episode),
      ToString(season) \o "x" \o Pad2(episode),
      ToString(season) \o "x" \o ToString(episode) }

\* any(re.search(pat, fname) for pat in regex_list)
SearchEpisode(fname, season, episode) ==
    \E pat \in regex_list(season, episode) : Contains(lower(fname), lower(pat))

\* SearchEpisode of the catalog names and the requested episodes, evaluated once
MatchMemo ==
    Eager([k \in CatalogNames \X { u \in Targets : u[1] # NoneInt /\ u[2] # NoneInt } |->
              SearchEpisode(k[1], k[2][1], k[2][2])])

MatchesEpisode(fname, season, episode) == MatchMemo[<<fname, <<season, episode>> >>]

\* score_file of the catalog files under every flag combination, evaluated once
ScoreMemo ==
    Eager([k \in (Catalog \cup EpisodeCatalog) \X (BOOLEAN \X BOOLEAN \X BOOLEAN) |->
              score_file(k[1].name, k[1].size, k[2][1], k[2][2], k[2][3])])

CachedPenalty == -2000
KeepAbove == -900

\* RdScore without the penalty for files outside the cached set
RdScoreNoPenalty(f, c) ==
    ScoreMemo[<<[name |-> f.name, size |-> f.size],
                <<c.exclude_hevc, c.exclude_eac3, c.exclude_dolby_vision>> >>]

\* the score a file ends with in the Real-Debrid ranking loop
RdScore(f, c) ==
    IF c.cached_file_ids.known /\ ToString(f.id) \notin c.cached_file_ids.ids
    THEN CachedPenalty
    ELSE ScoreMemo[<<[name |-> f.name, size |-> f.size],
                     <<c.exclude_hevc, c.exclude_eac3, c.exclude_dolby_vision>> >>]

\* RdRanked without the score filter
RdRankedKeepAll(video_files, c) ==
    LET Score(f) == RdScore(f, c)
    IN  SortDesc(video_files, Score)

\* RdRanked with a score filter that drops the -500 files too
RdRankedDropJunk(video_files, c) ==
    LET Score(f) == RdScore(f, c)
        Kept(f)  == Score(f) > -400
    IN  SortDesc(SelectSeq(video_files, Kept), Score)

\* ranked_files after the sort
RdRanked(video_files, c) ==
    LET Score(f) == RdScore(f, c)
        Kept(f)  == Score(f) > KeepAbove
    IN  SortDesc(SelectSeq(video_files, Kept), Score)

\* video_files after ranking, or the size-ordered fallback
RdCandidates(video_files, c) ==
    IF RdRanked(video_files, c) # <<>>
    THEN RdRanked(video_files, c)
    ELSE SortDesc(video_files, FileSize)

\* the episode loop: the id left in best_file_id after scanning fs from
\* position i on (a match with a falsy id does not stop the scan)
RECURSIVE RdScan(_, _, _, _, _)
RdScan(fs, i, season, episode, best) ==
    IF i > Len(fs) THEN best
    ELSE IF MatchesEpisode(fs[i].name, season, episode)
         THEN IF Truthy(fs[i].id) THEN fs[i].id
              ELSE RdScan(fs, i + 1, season, episode, fs[i].id)
         ELSE RdScan(fs, i + 1, season, episode, best)

\* a variant that takes the first candidate whatever the episode
RdBestFileIdTop(cands, season, episode) == cands[1].id

\* best_file_id of the Real-Debrid adapter
RdBestFileId(cands, season, episode) ==
    LET matched == IF season # NoneInt /\ episode # NoneInt
                   THEN RdScan(cands, 1, season, episode, NoneInt)
                   ELSE NoneInt
    IN  IF Truthy(matched) THEN matched ELSE cands[1].id

\* first pass of the TorBox adapter: largest episode match, else largest video
TbBestFileId1(video_files, season, episode) ==
    LET Match(f) == MatchesEpisode(f.name, season, episode)
        matches  == IF season # NoneInt /\ episode # NoneInt
                    THEN SortDesc(SelectSeq(video_files, Match), FileSize)
                    ELSE <<>>
        matched  == IF matches # <<>> THEN matches[1].id ELSE NoneInt
    IN  IF Truthy(matched) THEN matched
        ELSE SortDesc(video_files, FileSize)[1].id

\* second pass of the TorBox adapter: largest video, else largest file
TbBestFileId2(files) ==
    IF VideoFiles(files) # <<>>
    THEN SortDesc(VideoFiles(files), FileSize)[1].id
    ELSE SortDesc(files, FileSize)[1].id

(***************************************************************************)
(* One resolve call                                                        *)
(***************************************************************************)
HydrationBudgetRd == 15
HydrationBudgetTb == 30
LinkBudgetRd == 10
\* the second TorBox list loop clears target_torrent while attempt < 2
TbResetBelow == 2

NoTorrent == [present |-> FALSE, status |-> NoneStr, files |-> <<>>, links |-> <<>>]
NoOutcome == [url |-> NoneStr, error |-> 0]

\* no tools/call request is being handled outside the adapters
NoRpc == [tool |-> "none"]

\* the state of a call that has not been made
Off == [pc |-> "off", service |-> "rd", api_key |-> "", info_hash |-> InfoHash,
        magnet |-> "", season |-> NoneInt, episode |-> NoneInt,
        exclude_hevc |-> FALSE, exclude_eac3 |-> FALSE, exclude_dolby_vision |-> FALSE,
        cached_file_ids |-> [known |-> FALSE, ids |-> {}],
        add_refused |-> FALSE, torrent_id |-> NoneStr, target_torrent |-> NoTorrent,
        attempt |-> 0, got_files |-> FALSE, video_files |-> <<>>, ranked |-> FALSE,
        best_file_id |-> NoneInt, final_link |-> NoneStr,
        stream_url |-> NoneStr, exit |-> "", outcome |-> NoOutcome,
        calls |-> <<>>, adds |-> 0, add_magnets |-> <<>>, add_embedded |-> <<>>,
        sent_file_id |-> NoneInt, seen_downloading |-> FALSE]

\* the arguments of resolve_stream; the TorBox signature has no exclusion flags
NewCall(service, api_key, magnet, target, xh, xe, xd) ==
    [Off EXCEPT !.pc = "start", !.service = service, !.api_key = api_key,
                !.magnet = magnet, !.season = target[1], !.episode = target[2],
                !.exclude_hevc = xh, !.exclude_eac3 = xe, !.exclude_dolby_vision = xd]

\* (exclude_hevc, exclude_eac3, exclude_dolby_vision): each alone
FlagSets ==
    { <<TRUE, FALSE, FALSE>>, <<FALSE, TRUE, FALSE>>, <<FALSE, FALSE, TRUE>> }

\* the calls of a run: every target without flags, every flag with the
\* episode target, and every api key and magnet (which no file choice
\* reads) with the default target and flags
Calls ==
    { NewCall("rd", "key", "", <<1, 2>>, x[1], x[2], x[3]) : x \in FlagSets }
    \cup { NewCall(s, "key", "", t, FALSE, FALSE, FALSE) : s \in {"rd", "tb"}, t \in Targets }
    \cup { NewCall("tb", "key", ForeignMagnet, <<NoneInt, NoneInt>>, FALSE, FALSE, FALSE) }
    \cup { NewCall(s, k, m, <<NoneInt, NoneInt>>, FALSE, FALSE, FALSE) :
             s \in {"rd", "tb"}, k \in ApiKeys, m \in Magnets }

\* provider calls are logged by kind, a run of equal kinds once
Logged(c, kind) ==
    IF c.calls # <<>> /\ c.calls[Len(c.calls)] = kind
    THEN c ELSE [c EXCEPT !.calls = Append(@, kind)]

\* return None (or the URL) at the return site named exit
Ret(c, exit, url) == [c EXCEPT !.pc = "returned", !.exit = exit, !.stream_url = url]

\* attempt counts the iterations of the loop in progress; a loop left early
\* (break, return, exception) leaves it at 0, one that ran out at its budget
Left(c) == [c EXCEPT !.attempt = 0]

\* magnet or f"magnet:?xt=urn:btih:{info_hash}"
MagnetLink(c) == IF c.magnet # "" THEN c.magnet ELSE "magnet:?xt=urn:btih:" \o c.info_hash

Exc == [kind |-> "exc"]

(***************************************************************************)
(* Provider answers                                                        *)
(***************************************************************************)
\* the file lists a provider can show for the torrent: the one already shown,
\* else any listing in scope
Hydrated ==
    IF torrent # <<>> THEN {torrent}
    ELSE IF scope = "all" THEN Listings
    ELSE IF scope = "episodes" THEN EpisodeListings
    ELSE SmallListings

\* Provider behaviours that answer every request as a function of the request
\* and of the number of polls the requesting call has made: add_ok, the
\* number of status polls answered without files, the number of link polls
\* answered "queued", the status shown after them, finalize_ok.
ScriptNames == {"cached", "slow", "never", "notcached", "refused", "nolink"}

ScriptOf(name) ==
    CASE name = "cached"    -> [add_ok |-> TRUE, empty_polls |-> 0, busy_links |-> 0,
                                link_status |-> "downloaded", finalize_ok |-> TRUE]
      [] name = "slow"      -> [add_ok |-> TRUE, empty_polls |-> 2, busy_links |-> 1,
                                link_status |-> "downloaded", finalize_ok |-> TRUE]
      [] name = "never"     -> [add_ok |-> TRUE, empty_polls |-> 99, busy_links |-> 0,
                                link_status |-> "downloaded", finalize_ok |-> TRUE]
      [] name = "notcached" -> [add_ok |-> TRUE, empty_polls |-> 0, busy_links |-> 0,
                                link_status |-> "downloading", finalize_ok |-> TRUE]
      [] name = "refused"   -> [add_ok |-> FALSE, empty_polls |-> 0, busy_links |-> 0,
                                link_status |-> "downloaded", finalize_ok |-> TRUE]
      [] name = "nolink"    -> [add_ok |-> TRUE, empty_polls |-> 0, busy_links |-> 99,
                                link_status |-> "downloaded", finalize_ok |-> FALSE]

\* the answers of S, those with a file list showing a list of L instead
Relisted(S, L) ==
    { a \in S : a.kind = "exc" \/ a.files = <<>> }
    \cup { [a EXCEPT !.files = l] : a \in { b \in S : b.kind = "http" /\ b.files # <<>> },
                                    l \in L }

\* TorBox adds the magnet argument first (line 37) and a magnet made of
\* info_hash second (line 179): the answers after the first add list the
\* torrent the magnet argument names, those after the second add the torrent
\* behind info_hash
ListedFirst(c, S) ==
    IF c.magnet = ForeignMagnet THEN Relisted(S, {ForeignListing}) ELSE S

ListedSecond(c, S) ==
    IF c.magnet = ForeignMagnet THEN Relisted(S, Listings) ELSE S

\* the provider shows the file list fs (<<>>: it shows none)
Shown(fs) == torrent' = IF fs # <<>> THEN fs ELSE torrent

\* the add answer is a non-2xx status, success:false or has no torrent id
AddRefused(ans) ==
    ans.status_code \notin 200..299 \/ ~ans.success \/ ans.id \in {NoneStr, ""}

AvailAnswers ==
    { Exc, [kind |-> "http", status_code |-> 503, has_hash |-> FALSE, ids |-> {}],
      [kind |-> "http", status_code |-> 200, has_hash |-> FALSE, ids |-> {}] }
    \cup { [kind |-> "http", status_code |-> 200, has_hash |-> TRUE, ids |-> S] :
             S \in SUBSET CachedIdPool }

RdAddAnswers ==
    { Exc } \cup
    { [kind |-> "http", status_code |-> sc, success |-> TRUE, id |-> i] :
        sc \in {200, 201, 500}, i \in {NoneStr, "", "RD1"} }

RdInfoAnswers ==
    { Exc, [kind |-> "http", status_code |-> 503, status |-> NoneStr, files |-> <<>>] }
    \cup { [kind |-> "http", status_code |-> 200, status |-> st, files |-> fs] :
             st \in {"magnet_conversion"}, fs \in {<<>>} }
    \cup { [kind |-> "http", status_code |-> 200, status |-> st, files |-> fs] :
             st \in {"waiting_files_selection", "downloaded"}, fs \in Hydrated }

RdSelectAnswers ==
    { Exc } \cup { [kind |-> "http", status_code |-> sc] : sc \in {200, 204, 404} }

RdLink(id) == "https://real-debrid.com/d/" \o ToString(id)

\* one link per file selected on the provider side, in file order
LinksFor(ids) ==
    LET sel(f) == f.id \in ids IN
    [i \in 1..Len(SelectSeq(torrent, sel)) |-> RdLink(SelectSeq(torrent, sel)[i].id)]

\* the provider holds the file sent to selectFiles, or an earlier selection
\* when the select call was skipped
RdLinkLists(c) ==
    IF c.sent_file_id # NoneInt
    THEN { <<>>, <<RdLink(c.sent_file_id)>> }
    ELSE { <<>>, LinksFor({ f.id : f \in Range(torrent) }) }
         \cup { LinksFor({f.id}) : f \in Range(torrent) }

RdLinkAnswers(c) ==
    { Exc, [kind |-> "http", status_code |-> 503, status |-> NoneStr, links |-> <<>>] }
    \cup { [kind |-> "http", status_code |-> 200, status |-> st, links |-> <<>>] :
             st \in {"queued", "downloading"} }
    \cup { [kind |-> "http", status_code |-> 200, status |-> "downloaded", links |-> ls] :
             ls \in RdLinkLists(c) }

RdUnrestrictAnswers(c) ==
    { Exc, [kind |-> "http", status_code |-> 503, download |-> NoneStr] }
    \cup { [kind |-> "http", status_code |-> 200, download |-> d] :
             d \in {NoneStr, "", "https://cdn/" \o c.final_link} }

TbAddAnswers ==
    { Exc } \cup
    { [kind |-> "http", status_code |-> 500, success |-> FALSE, id |-> NoneStr, files |-> <<>>],
      [kind |-> "http", status_code |-> 201, success |-> TRUE, id |-> "7", files |-> <<>>],
      [kind |-> "http", status_code |-> 200, success |-> FALSE, id |-> "7", files |-> <<>>],
      [kind |-> "http", status_code |-> 200, success |-> TRUE, id |-> NoneStr, files |-> <<>>],
      [kind |-> "http", status_code |-> 200, success |-> TRUE, id |-> "7", files |-> <<>>] }
    \cup { [kind |-> "http", status_code |-> 200, success |-> TRUE, id |-> "7", files |-> fs] :
             fs \in Hydrated }

\* found: the list holds an entry whose id is torrent_id
TbListAnswers ==
    { Exc,
      [kind |-> "http", status_code |-> 503, success |-> FALSE, found |-> FALSE, files |-> <<>>],
      [kind |-> "http", status_code |-> 200, success |-> FALSE, found |-> FALSE, files |-> <<>>],
      [kind |-> "http", status_code |-> 200, success |-> TRUE, found |-> FALSE, files |-> <<>>],
      [kind |-> "http", status_code |-> 200, success |-> TRUE, found |-> TRUE, files |-> <<>>] }
    \cup { [kind |-> "http", status_code |-> 200, success |-> TRUE, found |-> TRUE, files |-> fs] :
             fs \in Hydrated }

TbUrl(id) == "https://torbox/dl/" \o ToString(id)

TbRequestDlAnswers(c) ==
    { Exc, [kind |-> "http", success |-> FALSE, data |-> NoneStr] }
    \cup { [kind |-> "http", success |-> TRUE, data |-> d] :
             d \in {NoneStr, "", TbUrl(c.best_file_id)} }

\* the answer the behaviour sc gives to call c's request of this kind
Scripted(sc, kind, c, a) ==
    /\ a.kind = "http"
    /\ CASE kind = "availability" -> a.status_code = 200 /\ ~a.has_hash
         [] kind = "add" ->
              IF sc.add_ok
              THEN a.status_code = 200 /\ a.success /\ a.id \notin {NoneStr, ""} /\
                   (c.service = "tb" => a.files = <<>>)
              ELSE a.status_code = 500 /\ a.id = NoneStr
         [] kind = "status" ->
              /\ a.status_code = 200
              /\ c.service = "tb" => a.success /\ a.found
              /\ IF c.attempt < sc.empty_polls
                 THEN a.files = <<>>
                 ELSE a.files # <<>> /\ (c.service = "rd" => a.status = "waiting_files_selection")
         [] kind = "select" -> a.status_code = 204
         [] kind = "links" ->
              /\ a.status_code = 200
              /\ IF c.attempt < sc.busy_links THEN a.status = "queued"
                 ELSE a.status = sc.link_status /\
                      (a.status = "downloaded" => a.links # <<>>)
         [] kind = "unrestrict" ->
              IF sc.finalize_ok THEN a.status_code = 200 /\ a.download \notin {NoneStr, ""}
              ELSE a.status_code = 503
         [] kind = "requestdl" ->
              IF sc.finalize_ok THEN a.success /\ a.data \notin {NoneStr, ""}
              ELSE ~a.success

\* the answers out of S the provider may give to call c's request
Offered(c, kind, S) ==
    IF scope \in ScriptNames
    THEN { a \in S : Scripted(ScriptOf(scope), kind, c, a) }
    ELSE S

(***************************************************************************)
(* Real-Debrid adapter                                                     *)
(***************************************************************************)
\* _get_cached_file_ids answering "nothing cached" when the pre-check fails
CachedIdsEmptyOnFailure(ans) ==
    IF ans.kind = "http" /\ ans.status_code = 200 /\ ans.has_hash
    THEN [known |-> TRUE, ids |-> ans.ids]
    ELSE [known |-> TRUE, ids |-> {}]

\* Optional[set] of cached file ids out of the availability answer
_get_cached_file_ids(ans) ==
    IF ans.kind = "http" /\ ans.status_code = 200 /\ ans.has_hash
    THEN [known |-> TRUE, ids |-> ans.ids]
    ELSE [known |-> FALSE, ids |-> {}]

\* RdAfterPoll without the return on a missing file list
RdAfterPollNoFilesCheck(c) ==
    LET files == c.target_torrent.files
        video == VideoFiles(files)
        cands == RdCandidates(video, c)
        best  == RdBestFileId(cands, c.season, c.episode)
    IN  IF video = <<>> THEN Ret(c, "NoVideoFiles", NoneStr)
        ELSE IF ~Truthy(best)
             THEN Ret([c EXCEPT !.video_files = cands, !.best_file_id = best,
                                !.ranked = (RdRanked(video, c) # <<>>)],
                      "NoFileId", NoneStr)
        ELSE [c EXCEPT !.video_files = cands, !.best_file_id = best,
                       !.ranked = (RdRanked(video, c) # <<>>),
                       !.pc = IF c.target_torrent.status = "waiting_files_selection"
                              THEN "rd_select" ELSE "rd_links"]

\* lines 111-204: from the end of the status loop to the chosen file
RdAfterPoll(c) ==
    LET files == c.target_torrent.files
        video == VideoFiles(files)
        cands == RdCandidates(video, c)
        best  == RdBestFileId(cands, c.season, c.episode)
    IN  IF ~c.target_torrent.present \/ files = <<>> THEN Ret(c, "HydrationTimeout", NoneStr)
        ELSE IF video = <<>> THEN Ret(c, "NoVideoFiles", NoneStr)
        ELSE IF ~Truthy(best)
             THEN Ret([c EXCEPT !.video_files = cands, !.best_file_id = best,
                                !.ranked = (RdRanked(video, c) # <<>>)],
                      "NoFileId", NoneStr)
        ELSE [c EXCEPT !.video_files = cands, !.best_file_id = best,
                       !.ranked = (RdRanked(video, c) # <<>>),
                       !.pc = IF c.target_torrent.status = "waiting_files_selection"
                              THEN "rd_select" ELSE "rd_links"]

\* resolve_stream entry of either adapter: the api key check
Start(p) ==
    /\ call[p].pc = "start"
    /\ call' = [call EXCEPT ![p] =
          IF call[p].api_key = "" THEN Ret(call[p], "NoApiKey", NoneStr)
          ELSE [call[p] EXCEPT !.pc = IF call[p].service = "rd" THEN "rd_avail" ELSE "tb_add"]]
    /\ UNCHANGED <<torrent, scope, rpc>>

RdCheckAvailability(p) ==
    /\ call[p].pc = "rd_avail"
    /\ \E ans \in Offered(call[p], "availability", AvailAnswers) :
         call' = [call EXCEPT ![p] =
            [Logged(call[p], "availability") EXCEPT
                !.cached_file_ids = _get_cached_file_ids(ans), !.pc = "rd_add"]]
    /\ UNCHANGED <<torrent, scope, rpc>>

\* RdAddMagnet without the check for a torrent id in the answer
RdAddMagnetNoIdCheck(p) ==
    /\ call[p].pc = "rd_add"
    /\ \E ans \in Offered(call[p], "add", RdAddAnswers) :
         LET c == [Logged(call[p], "add") EXCEPT
                      !.adds = @ + 1, !.add_magnets = Append(@, MagnetLink(call[p]))]
         IN  call' = [call EXCEPT ![p] =
                IF ans.kind = "exc" THEN Ret(c, "Exception", NoneStr)
                ELSE LET c1 == [c EXCEPT !.add_refused = @ \/ AddRefused(ans)]
                     IN  IF ans.status_code \notin {200, 201} THEN Ret(c1, "AddFailed", NoneStr)
                         ELSE [c1 EXCEPT !.torrent_id = ans.id, !.attempt = 0, !.pc = "rd_info"]]
    /\ UNCHANGED <<torrent, scope, rpc>>

\* RdAddMagnet with a torrent id table shared by the calls and keyed by
\* info-hash: a call reuses the id another call obtained and adds nothing
RdAddMagnetShared(p) ==
    /\ call[p].pc = "rd_add"
    /\ IF \E q \in Procs \ {p} : /\ call[q].service = "rd"
                                  /\ call[q].info_hash = call[p].info_hash
                                  /\ call[q].torrent_id # NoneStr
       THEN \E q \in Procs \ {p} :
               /\ call[q].service = "rd" /\ call[q].info_hash = call[p].info_hash
               /\ call[q].torrent_id # NoneStr
               /\ call' = [call EXCEPT ![p] = [@ EXCEPT !.torrent_id = call[q].torrent_id,
                                                        !.attempt = 0, !.pc = "rd_info"]]
       ELSE \E ans \in Offered(call[p], "add", RdAddAnswers) :
               LET c == [Logged(call[p], "add") EXCEPT
                            !.adds = @ + 1, !.add_magnets = Append(@, MagnetLink(call[p]))]
               IN  call' = [call EXCEPT ![p] =
                      IF ans.kind = "exc" THEN Ret(c, "Exception", NoneStr)
                      ELSE LET c1 == [c EXCEPT !.add_refused = @ \/ AddRefused(ans)]
                           IN  IF ans.status_code \notin {200, 201} THEN Ret(c1, "AddFailed", NoneStr)
                               ELSE IF ans.id \in {NoneStr, ""} THEN Ret(c1, "AddFailed", NoneStr)
                               ELSE [c1 EXCEPT !.torrent_id = ans.id, !.attempt = 0, !.pc = "rd_info"]]
    /\ UNCHANGED <<torrent, scope, rpc>>

RdAddMagnet(p) ==
    /\ call[p].pc = "rd_add"
    /\ \E ans \in Offered(call[p], "add", RdAddAnswers) :
         LET c == [Logged(call[p], "add") EXCEPT
                      !.adds = @ + 1, !.add_magnets = Append(@, MagnetLink(call[p]))]
         IN  call' = [call EXCEPT ![p] =
                IF ans.kind = "exc" THEN Ret(c, "Exception", NoneStr)
                ELSE LET c1 == [c EXCEPT !.add_refused = @ \/ AddRefused(ans)]
                     IN  IF ans.status_code \notin {200, 201} THEN Ret(c1, "AddFailed", NoneStr)
                         ELSE IF ans.id \in {NoneStr, ""} THEN Ret(c1, "AddFailed", NoneStr)
                         ELSE [c1 EXCEPT !.torrent_id = ans.id, !.attempt = 0, !.pc = "rd_info"]]
    /\ UNCHANGED <<torrent, scope, rpc>>

\* one iteration of the status loop
RdPollInfo(p) ==
    /\ call[p].pc = "rd_info"
    /\ \E ans \in Offered(call[p], "status", RdInfoAnswers) :
         LET c == Logged(call[p], "status")
         IN  /\ call' = [call EXCEPT ![p] =
                IF ans.kind = "exc" THEN Ret(Left(c), "Exception", NoneStr)
                ELSE LET c1 == IF ans.status_code = 200
                               THEN [c EXCEPT !.target_torrent =
                                        [present |-> TRUE, status |-> ans.status,
                                         files |-> ans.files, links |-> <<>>],
                                        !.got_files = @ \/ ans.files # <<>>]
                               ELSE c
                         c2 == [c1 EXCEPT !.attempt = @ + 1]
                     IN  IF ans.status_code = 200 /\ ans.files # <<>> THEN RdAfterPoll(Left(c1))
                         ELSE IF c2.attempt >= HydrationBudgetRd THEN RdAfterPoll(c2)
                         ELSE c2]
             /\ Shown(IF ans.kind = "exc" THEN <<>> ELSE ans.files)
    /\ UNCHANGED <<scope, rpc>>

RdSelectFiles(p) ==
    /\ call[p].pc = "rd_select"
    /\ \E ans \in Offered(call[p], "select", RdSelectAnswers) :
         LET c == [Logged(call[p], "select") EXCEPT !.sent_file_id = call[p].best_file_id]
         IN  call' = [call EXCEPT ![p] =
                IF ans.kind = "exc" THEN Ret(c, "Exception", NoneStr)
                ELSE IF ans.status_code \notin {200, 204} THEN Ret(c, "SelectFailed", NoneStr)
                ELSE [c EXCEPT !.pc = "rd_links"]]
    /\ UNCHANGED <<torrent, scope, rpc>>

\* RdPollLinks that keeps polling while the torrent is downloading
RdPollLinksIgnoresDownloading(p) ==
    /\ call[p].pc = "rd_links"
    /\ \E ans \in Offered(call[p], "links", RdLinkAnswers(call[p])) :
         LET c == Logged(call[p], "links")
         IN  call' = [call EXCEPT ![p] =
                IF ans.kind = "exc" THEN Ret(Left(c), "Exception", NoneStr)
                ELSE LET c1 == IF ans.status_code = 200
                               THEN [c EXCEPT !.target_torrent =
                                        [present |-> TRUE, status |-> ans.status,
                                         files |-> <<>>, links |-> ans.links],
                                        !.seen_downloading = @ \/ ans.status = "downloading"]
                               ELSE c
                         c2 == [c1 EXCEPT !.attempt = @ + 1]
                     IN  IF ans.status_code = 200 /\ ans.status = "downloaded" /\ ans.links # <<>>
                         THEN [Left(c1) EXCEPT !.final_link = ans.links[1], !.pc = "rd_unrestrict"]
                         ELSE IF c2.attempt >= LinkBudgetRd
                         THEN Ret(c2, "LinkGenerationFailed", NoneStr)
                         ELSE c2]
    /\ UNCHANGED <<torrent, scope, rpc>>

\* RdPollLinks whose loop starts over when its attempts are used up
RdPollLinksStartsOver(p) ==
    /\ call[p].pc = "rd_links"
    /\ \E ans \in Offered(call[p], "links", RdLinkAnswers(call[p])) :
         LET c == Logged(call[p], "links")
         IN  call' = [call EXCEPT ![p] =
                IF ans.kind = "exc" THEN Ret(Left(c), "Exception", NoneStr)
                ELSE LET c1 == IF ans.status_code = 200
                               THEN [c EXCEPT !.target_torrent =
                                        [present |-> TRUE, status |-> ans.status,
                                         files |-> <<>>, links |-> ans.links],
                                        !.seen_downloading = @ \/ ans.status = "downloading"]
                               ELSE c
                         c2 == [c1 EXCEPT !.attempt = @ + 1]
                     IN  IF ans.status_code = 200 /\ ans.status = "downloaded" /\ ans.links # <<>>
                         THEN [Left(c1) EXCEPT !.final_link = ans.links[1], !.pc = "rd_unrestrict"]
                         ELSE IF ans.status_code = 200 /\ ans.status = "downloading"
                         THEN Ret(Left(c1), "NotCached", NoneStr)
                         ELSE IF c2.attempt >= LinkBudgetRd
                         THEN Left(c2)
                         ELSE c2]
    /\ UNCHANGED <<torrent, scope, rpc>>

\* one iteration of the link loop
RdPollLinks(p) ==
    /\ call[p].pc = "rd_links"
    /\ \E ans \in Offered(call[p], "links", RdLinkAnswers(call[p])) :
         LET c == Logged(call[p], "links")
         IN  call' = [call EXCEPT ![p] =
                IF ans.kind = "exc" THEN Ret(Left(c), "Exception", NoneStr)
                ELSE LET c1 == IF ans.status_code = 200
                               THEN [c EXCEPT !.target_torrent =
                                        [present |-> TRUE, status |-> ans.status,
                                         files |-> <<>>, links |-> ans.links],
                                        !.seen_downloading = @ \/ ans.status = "downloading"]
                               ELSE c
                         c2 == [c1 EXCEPT !.attempt = @ + 1]
                     IN  IF ans.status_code = 200 /\ ans.status = "downloaded" /\ ans.links # <<>>
                         THEN [Left(c1) EXCEPT !.final_link = ans.links[1], !.pc = "rd_unrestrict"]
                         ELSE IF ans.status_code = 200 /\ ans.status = "downloading"
                         THEN Ret(Left(c1), "NotCached", NoneStr)
                         ELSE IF c2.attempt >= LinkBudgetRd
                         THEN Ret(c2, "LinkGenerationFailed", NoneStr)
                         ELSE c2]
    /\ UNCHANGED <<torrent, scope, rpc>>

\* RdUnrestrict that hands back the restricted link when the call fails
RdUnrestrictLinkOnFailure(p) ==
    /\ call[p].pc = "rd_unrestrict"
    /\ \E ans \in Offered(call[p], "unrestrict", RdUnrestrictAnswers(call[p])) :
         LET c == Logged(call[p], "unrestrict")
         IN  call' = [call EXCEPT ![p] =
                IF ans.kind = "exc" THEN Ret(c, "Exception", NoneStr)
                ELSE IF ans.status_code = 200 THEN Ret(c, "Returned", ans.download)
                ELSE Ret(c, "LinkGenerationFailed", c.final_link)]
    /\ UNCHANGED <<torrent, scope, rpc>>

RdUnrestrict(p) ==
    /\ call[p].pc = "rd_unrestrict"
    /\ \E ans \in Offered(call[p], "unrestrict", RdUnrestrictAnswers(call[p])) :
         LET c == Logged(call[p], "unrestrict")
         IN  call' = [call EXCEPT ![p] =
                IF ans.kind = "exc" THEN Ret(c, "Exception", NoneStr)
                ELSE IF ans.status_code = 200 THEN Ret(c, "Returned", ans.download)
                ELSE Ret(c, "LinkGenerationFailed", NoneStr)]
    /\ UNCHANGED <<torrent, scope, rpc>>

(***************************************************************************)
(* TorBox adapter                                                          *)
(***************************************************************************)
\* the checks both createtorrent calls make on the answer
TbAddUsable(ans) == ans.status_code = 200 /\ ans.success /\ ans.id # NoneStr

\* lines 102-168: from the end of the first list loop to the chosen file
TbAfterPoll1(c) ==
    LET files == c.target_torrent.files
        video == VideoFiles(files)
        best  == TbBestFileId1(video, c.season, c.episode)
        Match(f) == MatchesEpisode(f.name, c.season, c.episode)
        matched == c.season # NoneInt /\ c.episode # NoneInt
                   /\ \E i \in 1..Len(video) : Match(video[i])
                   /\ Truthy(SortDesc(SelectSeq(video, Match), FileSize)[1].id)
        after == IF matched THEN video ELSE SortDesc(video, FileSize)
    IN  IF ~c.target_torrent.present \/ files = <<>> THEN Ret(c, "HydrationTimeout", NoneStr)
        ELSE IF video = <<>> THEN Ret(c, "NoVideoFiles", NoneStr)
        ELSE IF ~Truthy(best)
             THEN Ret([c EXCEPT !.video_files = after, !.best_file_id = best],
                      "NoFileId", NoneStr)
        ELSE [c EXCEPT !.video_files = after, !.best_file_id = best, !.pc = "tb_add2"]

\* lines 249-295: from the end of the second list loop to the link request
TbAfterPoll2(c) ==
    LET files == c.target_torrent.files
    IN  IF ~c.target_torrent.present
        THEN Ret(c, "HydrationTimeout", NoneStr)
        ELSE IF files = <<>>
        THEN Ret([c EXCEPT !.best_file_id = NoneInt], "HydrationTimeout", NoneStr)
        ELSE IF TbBestFileId2(files) = NoneInt
        THEN Ret([c EXCEPT !.best_file_id = NoneInt], "NoFileId", NoneStr)
        ELSE [c EXCEPT !.video_files = SortDesc(VideoFiles(files), FileSize),
                       !.best_file_id = TbBestFileId2(files), !.pc = "tb_requestdl"]

\* the first createtorrent call (lines 36-62)
TbCreateTorrent(p) ==
    /\ call[p].pc = "tb_add"
    /\ \E ans \in Offered(call[p], "add", ListedFirst(call[p], TbAddAnswers)) :
         LET c == [Logged(call[p], "add") EXCEPT
                      !.adds = @ + 1, !.add_magnets = Append(@, MagnetLink(call[p]))]
         IN  /\ call' = [call EXCEPT ![p] =
                IF ans.kind = "exc" THEN Ret(c, "Exception", NoneStr)
                ELSE LET c1 == [c EXCEPT !.add_refused = @ \/ AddRefused(ans)]
                     IN  IF ~TbAddUsable(ans) THEN Ret(c1, "AddFailed", NoneStr)
                         ELSE [c1 EXCEPT !.torrent_id = ans.id, !.attempt = 0,
                                         !.add_embedded = Append(@, ans.files # <<>>),
                                         !.pc = "tb_list"]]
             /\ Shown(IF ans.kind = "exc" THEN <<>> ELSE ans.files)
    /\ UNCHANGED <<scope, rpc>>

\* one iteration of the first list loop (lines 70-100)
TbPollList(p) ==
    /\ call[p].pc = "tb_list"
    /\ \E ans \in Offered(call[p], "status", ListedFirst(call[p], TbListAnswers)) :
         LET c == Logged(call[p], "status")
         IN  /\ call' = [call EXCEPT ![p] =
                IF ans.kind = "exc" THEN Ret(Left(c), "Exception", NoneStr)
                ELSE LET c1 == IF ans.status_code = 200 /\ ans.success /\ ans.found
                               THEN [c EXCEPT !.target_torrent =
                                        [present |-> TRUE, status |-> NoneStr,
                                         files |-> ans.files, links |-> <<>>],
                                        !.got_files = @ \/ ans.files # <<>>]
                               ELSE c
                         c2 == [c1 EXCEPT !.attempt = @ + 1]
                     IN  IF ans.status_code = 200 /\ c1.target_torrent.present
                            /\ c1.target_torrent.files # <<>>
                         THEN TbAfterPoll1(Left(c1))
                         ELSE IF c2.attempt >= HydrationBudgetTb THEN TbAfterPoll1(c2)
                         ELSE c2]
             /\ Shown(IF ans.kind = "exc" THEN <<>> ELSE ans.files)
    /\ UNCHANGED <<scope, rpc>>

\* the second createtorrent call (lines 178-212)
TbCreateTorrent2(p) ==
    /\ call[p].pc = "tb_add2"
    /\ \E ans \in Offered(call[p], "add", ListedSecond(call[p], TbAddAnswers)) :
         LET c == [Logged(call[p], "add") EXCEPT
                      !.adds = @ + 1,
                      !.add_magnets = Append(@, "magnet:?xt=urn:btih:" \o call[p].info_hash)]
         IN  /\ call' = [call EXCEPT ![p] =
                IF ans.kind = "exc" THEN Ret(c, "Exception", NoneStr)
                ELSE LET c1 == [c EXCEPT !.add_refused = @ \/ AddRefused(ans)]
                     IN  IF ~TbAddUsable(ans) THEN Ret(c1, "AddFailed", NoneStr)
                         ELSE IF ans.files # <<>>
                         THEN TbAfterPoll2([c1 EXCEPT !.torrent_id = ans.id,
                                 !.add_embedded = Append(@, TRUE),
                                 !.target_torrent = [present |-> TRUE, status |-> NoneStr,
                                                     files |-> ans.files, links |-> <<>>]])
                         ELSE [c1 EXCEPT !.torrent_id = ans.id, !.target_torrent = NoTorrent,
                                         !.add_embedded = Append(@, FALSE),
                                         !.attempt = 0, !.pc = "tb_list2"]]
             /\ Shown(IF ans.kind = "exc" THEN <<>> ELSE ans.files)
    /\ UNCHANGED <<scope, rpc>>

\* one iteration of the second list loop (lines 217-247)
TbPollList2(p) ==
    /\ call[p].pc = "tb_list2"
    /\ \E ans \in Offered(call[p], "status", ListedSecond(call[p], TbListAnswers)) :
         LET c == Logged(call[p], "status")
         IN  /\ call' = [call EXCEPT ![p] =
                IF ans.kind = "exc" THEN Ret(Left(c), "Exception", NoneStr)
                ELSE LET c1 == IF ans.success /\ ans.found
                               THEN [c EXCEPT !.target_torrent =
                                        [present |-> TRUE, status |-> NoneStr,
                                         files |-> ans.files, links |-> <<>>],
                                        !.got_files = @ \/ ans.files # <<>>]
                               ELSE c
                         c2 == [c1 EXCEPT !.attempt = @ + 1,
                                          !.target_torrent =
                                              IF c1.attempt < TbResetBelow THEN NoTorrent ELSE @]
                     IN  IF c1.target_torrent.present /\ c1.target_torrent.files # <<>>
                         THEN TbAfterPoll2(Left(c1))
                         ELSE IF c2.attempt >= HydrationBudgetTb THEN TbAfterPoll2(c2)
                         ELSE c2]
             /\ Shown(IF ans.kind = "exc" THEN <<>> ELSE ans.files)
    /\ UNCHANGED <<scope, rpc>>

TbRequestDl(p) ==
    /\ call[p].pc = "tb_requestdl"
    /\ \E ans \in Offered(call[p], "requestdl", TbRequestDlAnswers(call[p])) :
         LET c == [Logged(call[p], "requestdl") EXCEPT !.sent_file_id = call[p].best_file_id]
         IN  call' = [call EXCEPT ![p] =
                IF ans.kind = "exc" THEN Ret(c, "Exception", NoneStr)
                ELSE IF ans.success THEN Ret(c, "Returned", ans.data)
                ELSE Ret(c, "LinkGenerationFailed", NoneStr)]
    /\ UNCHANGED <<torrent, scope, rpc>>

(***************************************************************************)
(* The caller of resolve_stream (handle_json_rpc, tool "resolve")          *)
(***************************************************************************)
\* an exception leaves the Real-Debrid adapter; the TorBox adapter catches it
Raised(c) == c.exit = "Exception" /\ c.service = "rd"

\* if stream_url: a result with the url, else error -32001; a raised
\* exception is answered -32603 by the handler's except clause
ResolveResponse(c) ==
    IF Raised(c) THEN [url |-> NoneStr, error |-> -32603]
    ELSE IF c.stream_url \notin {NoneStr, ""} THEN [url |-> c.stream_url, error |-> 0]
    ELSE [url |-> NoneStr, error |-> -32001]

Respond(p) ==
    /\ call[p].pc = "returned"
    /\ call' = [call EXCEPT ![p] = [call[p] EXCEPT !.pc = "done", !.outcome = ResolveResponse(call[p])]]
    /\ UNCHANGED <<torrent, scope, rpc>>

(***************************************************************************)
(* The resolve tool of handle_json_rpc: which adapter and key a request    *)
(* is resolved with.  A key is the value api_keys.get(...) or the setting  *)
(* yields: NoneStr when absent, "" or a key.                               *)
(***************************************************************************)
TruthyStr(s) == s # NoneStr /\ s # ""

RequestKeys == { [torbox |-> t, realdebrid |-> r] :
                   t \in {NoneStr, "", "tb-req"}, r \in {NoneStr, "", "rd-req"} }

Settings == { [TORBOX_API_KEY |-> t, REALDEBRID_API_KEY |-> r] :
                t \in {NoneStr, "", "tb-env"}, r \in {NoneStr, "", "rd-env"} }

NoService == [debrid_service |-> NoneStr, api_key |-> NoneStr, service_used |-> NoneStr]

\* a resolve request as it arrives: its api_keys and info_hash arguments
\* and the settings of the process
NewResolve(api_keys, settings, info_hash) ==
    [tool |-> "resolve", pc |-> "select", api_keys |-> api_keys, settings |-> settings,
     info_hash |-> info_hash, debrid_service |-> NoneStr, api_key |-> NoneStr,
     service_used |-> NoneStr, response |-> NoOutcome]

\* a variant whose request Real-Debrid key goes before the request TorBox key
SelectServiceRdFirst(api_keys, settings) ==
    IF TruthyStr(api_keys.realdebrid)
    THEN [debrid_service |-> "rd", api_key |-> api_keys.realdebrid, service_used |-> "Real-Debrid"]
    ELSE IF TruthyStr(api_keys.torbox)
    THEN [debrid_service |-> "tb", api_key |-> api_keys.torbox, service_used |-> "TorBox"]
    ELSE IF TruthyStr(settings.TORBOX_API_KEY)
    THEN [debrid_service |-> "tb", api_key |-> settings.TORBOX_API_KEY, service_used |-> "TorBox (env)"]
    ELSE IF TruthyStr(settings.REALDEBRID_API_KEY)
    THEN [debrid_service |-> "rd", api_key |-> settings.REALDEBRID_API_KEY, service_used |-> "Real-Debrid (env)"]
    ELSE NoService

\* the if / elif chain over the request keys and the settings
SelectService(api_keys, settings) ==
    IF TruthyStr(api_keys.torbox)
    THEN [debrid_service |-> "tb", api_key |-> api_keys.torbox, service_used |-> "TorBox"]
    ELSE IF TruthyStr(api_keys.realdebrid)
    THEN [debrid_service |-> "rd", api_key |-> api_keys.realdebrid, service_used |-> "Real-Debrid"]
    ELSE IF TruthyStr(settings.TORBOX_API_KEY)
    THEN [debrid_service |-> "tb", api_key |-> settings.TORBOX_API_KEY, service_used |-> "TorBox (env)"]
    ELSE IF TruthyStr(settings.REALDEBRID_API_KEY)
    THEN [debrid_service |-> "rd", api_key |-> settings.REALDEBRID_API_KEY, service_used |-> "Real-Debrid (env)"]
    ELSE NoService

ResolveSelect ==
    /\ rpc.tool = "resolve" /\ rpc.pc = "select"
    /\ LET s == SelectService(rpc.api_keys, rpc.settings)
       IN rpc' = [rpc EXCEPT !.pc = "check", !.debrid_service = s.debrid_service,
                             !.api_key = s.api_key, !.service_used = s.service_used]
    /\ UNCHANGED <<call, torrent, scope>>

\* if not debrid_service or not api_key: error -32000
ResolveNoKeys ==
    /\ rpc.tool = "resolve" /\ rpc.pc = "check"
    /\ rpc.debrid_service = NoneStr \/ ~TruthyStr(rpc.api_key)
    /\ rpc' = [rpc EXCEPT !.pc = "done", !.response = [url |-> NoneStr, error |-> -32000]]
    /\ UNCHANGED <<call, torrent, scope>>

\* if not info_hash: error -32602
ResolveNoHash ==
    /\ rpc.tool = "resolve" /\ rpc.pc = "check"
    /\ ~(rpc.debrid_service = NoneStr \/ ~TruthyStr(rpc.api_key))
    /\ ~TruthyStr(rpc.info_hash)
    /\ rpc' = [rpc EXCEPT !.pc = "done", !.response = [url |-> NoneStr, error |-> -32602]]
    /\ UNCHANGED <<call, torrent, scope>>

\* await debrid_service.resolve_stream(...): the adapter is entered with
\* the selected key; its steps and the answer built from its result are
\* the actions of Step
ResolveCall ==
    /\ rpc.tool = "resolve" /\ rpc.pc = "check"
    /\ ~(rpc.debrid_service = NoneStr \/ ~TruthyStr(rpc.api_key))
    /\ TruthyStr(rpc.info_hash)
    /\ rpc' = [rpc EXCEPT !.pc = "call"]
    /\ call' = [call EXCEPT ![1] = NewCall(rpc.debrid_service, rpc.api_key, "",
                                           <<NoneInt, NoneInt>>, FALSE, FALSE, FALSE)]
    /\ UNCHANGED <<torrent, scope>>

(***************************************************************************)
(* The search tool of handle_json_rpc: up to three queries of the Zilean   *)
(* index, the last one filtered by the season and episode read off the     *)
(* result titles.  The regular expressions are matched as re.search        *)
(* matches them: leftmost position, alternatives in order, greedy counts.  *)
(***************************************************************************)
Digits == "0123456789"

\* s[i:j] of the 1-based closed range, "" when it runs past the end
Sub(s, i, j) == IF i >= 1 /\ j <= Len(s) /\ i <= j THEN SubSeq(s, i, j) ELSE ""
At(s, i) == Sub(s, i, i)

IsDigit(c) == \E i \in 1..10 : SubSeq(Digits, i, i) = c
DigitVal(c) == (CHOOSE i \in 1..10 : SubSeq(Digits, i, i) = c) - 1

\* \w of an ASCII title
IsWordChar(c) ==
    \/ IsDigit(c) \/ c = "_"
    \/ \E i \in 1..26 : SubSeq(UpperAlpha, i, i) = c \/ SubSeq(LowerAlpha, i, i) = c

UpperChar(c) ==
    IF \E i \in 1..26 : SubSeq(LowerAlpha, i, i) = c
    THEN LET i == CHOOSE j \in 1..26 : SubSeq(LowerAlpha, j, j) = c
         IN  SubSeq(UpperAlpha, i, i)
    ELSE c

RECURSIVE upper(_)
upper(s) ==
    IF Len(s) = 0 THEN ""
    ELSE UpperChar(SubSeq(s, 1, 1)) \o upper(SubSeq(s, 2, Len(s)))

\* int() of a string of digits
RECURSIVE ToInt(_)
ToInt(s) ==
    IF Len(s) = 0 THEN 0
    ELSE 10 * ToInt(SubSeq(s, 1, Len(s) - 1)) + DigitVal(At(s, Len(s)))

\* how many characters \d{1,max} takes at position i, 0 when it cannot match
DigitRun(s, i, max) ==
    CHOOSE n \in 0..max :
        /\ \A j \in 0..(n - 1) : IsDigit(At(s, i + j))
        /\ n = max \/ ~IsDigit(At(s, i + n))

\* (?:S|SEASON\W?)(\d{1,2}) at position i: group 1, "" when it does not match
SeasonWordAt(s, i) ==
    IF At(s, i) = "S" /\ DigitRun(s, i + 1, 2) > 0
    THEN Sub(s, i + 1, i + DigitRun(s, i + 1, 2))
    ELSE IF Sub(s, i, i + 5) = "SEASON"
    THEN LET j == i + 6 IN
         IF At(s, j) # "" /\ ~IsWordChar(At(s, j)) /\ DigitRun(s, j + 1, 2) > 0
         THEN Sub(s, j + 1, j + DigitRun(s, j + 1, 2))
         ELSE IF DigitRun(s, j, 2) > 0 THEN Sub(s, j, j + DigitRun(s, j, 2) - 1)
         ELSE ""
    ELSE ""

\* (\d{1,2})[xX]\d+ at position i: group 2, "" when it does not match
SeasonCrossAt(s, i) ==
    IF DigitRun(s, i, 2) = 2 /\ At(s, i + 2) \in {"x", "X"} /\ IsDigit(At(s, i + 3))
    THEN Sub(s, i, i + 1)
    ELSE IF DigitRun(s, i, 2) >= 1 /\ At(s, i + 1) \in {"x", "X"} /\ IsDigit(At(s, i + 2))
    THEN Sub(s, i, i)
    ELSE ""

SeasonAt(s, i) == IF SeasonWordAt(s, i) # "" THEN SeasonWordAt(s, i) ELSE SeasonCrossAt(s, i)

\* int(s_match.group(1) or s_match.group(2)) if s_match else None
item_season(s) ==
    IF \E i \in 1..Len(s) : SeasonAt(s, i) # ""
    THEN LET i == CHOOSE i \in 1..Len(s) :
                      SeasonAt(s, i) # "" /\ \A j \in 1..(i - 1) : SeasonAt(s, j) = ""
         IN  ToInt(SeasonAt(s, i))
    ELSE NoneInt

\* re.search of a marker character followed by \d{1,3}: int(group 1), else None
EpisodeAfter(s, markers) ==
    LET Hit(i) == At(s, i) \in markers /\ IsDigit(At(s, i + 1)) IN
    IF \E i \in 1..Len(s) : Hit(i)
    THEN LET i == CHOOSE i \in 1..Len(s) : Hit(i) /\ \A j \in 1..(i - 1) : ~Hit(j)
         IN  ToInt(Sub(s, i + 1, i + DigitRun(s, i + 1, 3)))
    ELSE NoneInt

\* e_match = re.search(r'[xE](\d{1,3})', item_title)
item_episode(s) == EpisodeAfter(s, {"x", "E"})

\* the show searched for and the raw titles the index may answer with
Title == "Foo"

IndexTitles ==
    { "Foo", "Foo S01E02", "Foo S01E05", "Foo 1x02", "Foo 1x05", "Foo S02E02",
      "Foo 2x02", "Foo S00E02", "Foo Season 1", "Foo Season 2" }

\* season and episode read off each title, evaluated once
DetectMemo ==
    Eager([t \in IndexTitles |->
              [season |-> item_season(upper(t)), episode |-> item_episode(upper(t))]])

\* a variant that keeps only what names the target season and episode
KeepsExact(t, season, episode) ==
    LET d == DetectMemo[t] IN
    d.season = season /\ d.episode = episode

\* the loop body of the filter: FALSE at a continue, TRUE at the append
Keeps(t, season, episode) ==
    LET d == DetectMemo[t] IN
    /\ ~(Truthy(d.season) /\ d.season # season)
    /\ ~(Truthy(d.episode) /\ Truthy(episode) /\ d.episode # episode)

\* if desperation_results and season: the filtered list, else the list
RECURSIVE Filtered(_, _, _)
Filtered(items, season, episode) ==
    IF items = <<>> \/ ~Truthy(season) THEN items
    ELSE LET rest == IF Len(items) = 1 THEN <<>>
                     ELSE Filtered(Tail(items), season, episode)
         IN  IF Keeps(Head(items), season, episode) THEN <<Head(items)>> \o rest ELSE rest

ResultLists ==
    { <<>> } \cup { <<t>> : t \in IndexTitles }
    \cup { <<"Foo S01E02", "Foo S02E02">>, <<"Foo S01E05", "Foo 1x05", "Foo S01E02">>,
             <<"Foo", "Foo Season 1", "Foo S02E02">> }

\* what a GET of /dmm/filtered may come to: an exception of the client, an
\* error status, a body that is not a list, a list
IndexAnswers ==
    { Exc,
      [kind |-> "http", status_code |-> 500, is_list |-> TRUE, body |-> <<>>],
      [kind |-> "http", status_code |-> 200, is_list |-> FALSE, body |-> <<>>] }
    \cup { [kind |-> "http", status_code |-> 200, is_list |-> TRUE, body |-> l] : l \in ResultLists }

\* the body of _fetch_cached: the list, [] for a non-list and for anything raised
Fetched(ans) ==
    IF ans.kind = "http" /\ ans.status_code < 400 /\ ans.is_list THEN ans.body
    ELSE <<>>

SearchArgs ==
    { [type |-> m, year |-> y, season |-> s, episode |-> e] :
        m \in {"movie", "show"}, y \in {NoneInt, 2020}, s \in {NoneInt, 0, 1}, e \in {NoneInt, 0, 2} }

\* a search request as it arrives; imdb_id is left out of the requests
NewSearch(a) ==
    [tool |-> "search", pc |-> "tier1", type |-> a.type, year |-> a.year,
     season |-> a.season, episode |-> a.episode, results |-> <<>>,
     queried |-> <<>>, keys |-> <<>>, requests |-> <<>>, answers |-> <<>>,
     raised |-> {}, cache |-> <<>>,
     response |-> [sent |-> FALSE, streams |-> <<>>, error |-> 0]]

\* f"{title} S{season:02d}E{episode:02d}"
fallback_query(r) == Title \o " S" \o Pad2(r.season) \o "E" \o Pad2(r.episode)

\* the arguments of _fetch_cached, the key of its cache
StructuredKey(r) == <<Title, r.year, NoneStr, r.season, r.episode>>
FallbackKey(r) == <<fallback_query(r), NoneInt, NoneStr, NoneInt, NoneInt>>
DesperationKey(r) == <<Title, NoneInt, NoneStr, NoneInt, NoneInt>>

InCache(r, key) == key \in DOMAIN r.cache

\* the query parameters _fetch_cached sends for its arguments: a falsy
\* argument is left out (None here)
Params(key) ==
    [Query   |-> IF key[1] # "" THEN key[1] ELSE NoneStr,
     Year    |-> IF Truthy(key[2]) THEN key[2] ELSE NoneInt,
     ImdbId  |-> IF TruthyStr(key[3]) THEN key[3] ELSE NoneStr,
     Season  |-> IF Truthy(key[4]) THEN key[4] ELSE NoneInt,
     Episode |-> IF Truthy(key[5]) THEN key[5] ELSE NoneInt]

\* a variant whose cache keeps no list of a call that raised
QueriedForgetsFailure(r, tier, key, ans) ==
    LET found == IF InCache(r, key) THEN r.cache[key] ELSE Fetched(ans) IN
    [r EXCEPT !.queried = Append(@, tier), !.answers = Append(@, found),
              !.keys = Append(@, key),
              !.requests = IF InCache(r, key) THEN @ ELSE Append(@, Params(key)),
              !.raised = IF ~InCache(r, key) /\ ans.kind = "exc" THEN @ \cup {tier} ELSE @,
              !.cache = IF InCache(r, key) \/ ans.kind = "exc" THEN @ ELSE (key :> found) @@ @]

\* search_stream for one tier: the cached list of the key, else the list
\* fetched, which the cache keeps
Queried(r, tier, key, ans) ==
    LET found == IF InCache(r, key) THEN r.cache[key] ELSE Fetched(ans) IN
    [r EXCEPT !.queried = Append(@, tier), !.answers = Append(@, found),
              !.keys = Append(@, key),
              !.requests = IF InCache(r, key) THEN @ ELSE Append(@, Params(key)),
              !.raised = IF ~InCache(r, key) /\ ans.kind = "exc" THEN @ \cup {tier} ELSE @,
              !.cache = IF InCache(r, key) THEN @ ELSE (key :> found) @@ @]

\* the answers a query may get: one only when the cache has the key
AnswersFor(r, key) == IF InCache(r, key) THEN {Exc} ELSE IndexAnswers

\* the mapped results are sent, one stream per result in the same order
Responded(r) ==
    [r EXCEPT !.pc = "done", !.response = [sent |-> TRUE, streams |-> r.results, error |-> 0]]

Tier2Due(r) == r.results = <<>> /\ r.type = "show" /\ Truthy(r.season) /\ Truthy(r.episode)
Tier3Due(r) == r.results = <<>> /\ r.type = "show"

\* from the end of a query to the next await or to the response
AfterTier2(r) == IF Tier3Due(r) THEN [r EXCEPT !.pc = "tier3"] ELSE Responded(r)

\* a variant that goes on to the title-only query whatever was found
AfterTier1Always(r) == [r EXCEPT !.pc = "tier3"]

AfterTier1(r) == IF Tier2Due(r) THEN [r EXCEPT !.pc = "tier2"] ELSE AfterTier2(r)

SearchTier1 ==
    /\ rpc.tool = "search" /\ rpc.pc = "tier1"
    /\ \E ans \in AnswersFor(rpc, StructuredKey(rpc)) :
         LET q == Queried(rpc, 1, StructuredKey(rpc), ans)
         IN  rpc' = AfterTier1([q EXCEPT !.results = q.answers[Len(q.answers)]])
    /\ UNCHANGED <<call, torrent, scope>>

SearchTier2 ==
    /\ rpc.tool = "search" /\ rpc.pc = "tier2"
    /\ \E ans \in AnswersFor(rpc, FallbackKey(rpc)) :
         LET q == Queried(rpc, 2, FallbackKey(rpc), ans)
         IN  rpc' = AfterTier2([q EXCEPT !.results = q.answers[Len(q.answers)]])
    /\ UNCHANGED <<call, torrent, scope>>

SearchTier3 ==
    /\ rpc.tool = "search" /\ rpc.pc = "tier3"
    /\ \E ans \in AnswersFor(rpc, DesperationKey(rpc)) :
         LET q == Queried(rpc, 3, DesperationKey(rpc), ans)
             desperation_results == q.answers[Len(q.answers)]
         IN  rpc' = Responded([q EXCEPT !.results =
                                   Filtered(desperation_results, q.season, q.episode)])
    /\ UNCHANGED <<call, torrent, scope>>

(***************************************************************************)
(* Calls of search_stream one after another on the one ZileanService of    *)
(* the process, as successive searches make them: the cache of             *)
(* _fetch_cached outlives each call.                                       *)
(***************************************************************************)
MaxQueries == 3
CacheMaxSize == 256

\* the structured query of a search for S1E2 of the show, without and with
\* a year, and its title-only query
LookupKeys ==
    { <<Title, NoneInt, NoneStr, 1, 2>>, <<Title, 2020, NoneStr, 1, 2>>,
      <<Title, NoneInt, NoneStr, NoneInt, NoneInt>> }

NewLookups ==
    [NewSearch([type |-> "show", year |-> NoneInt, season |-> 1, episode |-> 2])
        EXCEPT !.tool = "lookup", !.pc = "lookup"]

\* one call of search_stream; the runs stay below the size at which the
\* cache starts to drop its least recently used key
SearchStream ==
    /\ rpc.tool = "lookup" /\ Len(rpc.queried) < MaxQueries
    /\ \E key \in LookupKeys :
         /\ InCache(rpc, key) \/ Cardinality(DOMAIN rpc.cache) < CacheMaxSize
         /\ \E ans \in AnswersFor(rpc, key) :
              rpc' = Queried(rpc, Len(rpc.queried) + 1, key, ans)
    /\ UNCHANGED <<call, torrent, scope>>

(***************************************************************************)
(* A call of VideoParser.score_file on its own: the file names carry the   *)
(* tokens the detectors and the hard filters look for, alone and combined, *)
(* the sizes reach below and beyond the 50-point cap.                      *)
(***************************************************************************)
ScoreNames ==
    { "Movie.1080p.mkv", "Movie.x265.mkv", "Movie.HEVC.1080p.mkv", "Movie.h265.CAM.mkv",
      "Movie.EAC3.mkv", "Movie.DDP5.1.mkv", "Movie.DD+.mkv", "Movie.Atmos.sample.mkv",
      "Movie.Dolby Digital Plus.mkv", "Movie.DV.mkv", "Movie.DoVi.mkv",
      "Movie.Dolby Vision.mkv", "Movie.HDR10+.mkv", "Movie.HDR10Plus.mkv",
      "Movie.2160p.REMUX.x265.Atmos.DV.mkv", "Movie.1080p.DTS.mkv",
      "Movie.2160p.REMUX.TrueHD.DV.HDR10.mkv", "Movie.480p.HDTV.AAC.mkv" }

\* names that differ in the resolution token only: what precedes and what
\* follows the token, and the tokens
Stems ==
    { [pre |-> "Movie.", suf |-> ".mkv"],
      [pre |-> "Movie.", suf |-> ".BluRay.Atmos.mkv"],
      [pre |-> "Movie.", suf |-> ".WEB-DL.DDP5.1.HDR.mkv"],
      [pre |-> "Movie.", suf |-> ".x265.DV.mkv"],
      [pre |-> "Movie.", suf |-> ".CAM.mkv"] }

ResolutionTokens == {"720p", "1080p", "2160p", "4k", "UHD"}

WithRes(stem, res) == stem.pre \o res \o stem.suf

ResolutionNames == { WithRes(st, res) : st \in Stems, res \in ResolutionTokens }

\* sizes in MiB: nothing, 1.5 GiB, 2 GiB, 60 GiB
ScoreSizes == {0, 1536, 2048, 61440}

\* the size_bytes arguments: numbers, the argument left out, None, a string
SizeInputs ==
    { [kind |-> "int", mib |-> z] : z \in ScoreSizes }
    \cup { [kind |-> "absent", mib |-> 0], [kind |-> "null", mib |-> 0],
           [kind |-> "str", mib |-> 2048] }

NewScore(filename, size, xh, xe, xd) ==
    [tool |-> "score", pc |-> "call", filename |-> filename, size |-> size,
     exclude_hevc |-> xh, exclude_eac3 |-> xe, exclude_dolby_vision |-> xd,
     score |-> 0, raised |-> NoneStr]

ScoreFile ==
    /\ rpc.tool = "score" /\ rpc.pc = "call"
    /\ LET r == score_call(rpc.filename, rpc.size, rpc.exclude_hevc,
                           rpc.exclude_eac3, rpc.exclude_dolby_vision)
       IN  rpc' = [rpc EXCEPT !.pc = "done", !.score = r.value, !.raised = r.raised]
    /\ UNCHANGED <<call, torrent, scope>>

(***************************************************************************)
(* Specifications                                                          *)
(***************************************************************************)
Step(p) ==
    \/ Start(p)
    \/ RdCheckAvailability(p)
    \/ RdAddMagnet(p)
    \/ RdPollInfo(p)
    \/ RdSelectFiles(p)
    \/ RdPollLinks(p)
    \/ RdUnrestrict(p)
    \/ TbCreateTorrent(p)
    \/ TbPollList(p)
    \/ TbCreateTorrent2(p)
    \/ TbPollList2(p)
    \/ TbRequestDl(p)
    \/ Respond(p)

Next == \E p \in Procs : Step(p)

\* one resolve call, every argument combination, every torrent
Init ==
    /\ torrent = <<>>
    /\ scope = "all"
    /\ rpc = NoRpc
    /\ \E c \in Calls : call = [p \in Procs |-> IF p = 1 THEN c ELSE Off]

Spec == Init /\ [][Next]_vars

\* the calls of the two-call and of the fair specification
SmallCalls ==
    { NewCall(s, "key", "", t, FALSE, FALSE, FALSE) : s \in {"rd", "tb"}, t \in Targets }

\* two calls for the same info-hash in flight on the event loop, the provider
\* following one of its scripted behaviours
InitConc ==
    /\ torrent = <<>>
    /\ scope \in ScriptNames
    /\ rpc = NoRpc
    /\ call \in [Procs -> SmallCalls]

ConcSpec == InitConc /\ [][Next]_vars

\* one call against any provider answers; the event loop resumes a call
\* whose request has been answered or has timed out
InitLive ==
    /\ torrent = <<>>
    /\ scope = "small"
    /\ rpc = NoRpc
    /\ \E c \in SmallCalls : call = [p \in Procs |-> IF p = 1 THEN c ELSE Off]

LiveSpec == InitLive /\ [][Next]_vars /\ \A p \in Procs : WF_vars(Step(p))

\* one call for episode 2 of season 1 against a torrent of the season
InitEpisode ==
    /\ torrent = <<>>
    /\ scope = "episodes"
    /\ rpc = NoRpc
    /\ \E s \in {"rd", "tb"} :
         call = [p \in Procs |-> IF p = 1
                                 THEN NewCall(s, "key", "", <<1, 2>>, FALSE, FALSE, FALSE)
                                 ELSE Off]

EpisodeSpec == InitEpisode /\ [][Next]_vars

\* one resolve request from its arrival at the tool: every combination of
\* request keys and settings, with and without an info_hash
InitResolve ==
    /\ torrent = <<>>
    /\ scope = "small"
    /\ call = [p \in Procs |-> Off]
    /\ \E k \in RequestKeys, e \in Settings, h \in {NoneStr, "", InfoHash} :
         rpc = NewResolve(k, e, h)

NextResolve ==
    \/ ResolveSelect
    \/ ResolveNoKeys
    \/ ResolveNoHash
    \/ ResolveCall
    \/ \E p \in Procs : Step(p)

ResolveSpec == InitResolve /\ [][NextResolve]_vars

\* one search request, every argument combination, every index answer
InitSearch ==
    /\ torrent = <<>>
    /\ scope = "small"
    /\ call = [p \in Procs |-> Off]
    /\ \E a \in SearchArgs : rpc = NewSearch(a)

NextSearch ==
    \/ SearchTier1
    \/ SearchTier2
    \/ SearchTier3

SearchSpec == InitSearch /\ [][NextSearch]_vars

\* the service before its first query
InitCache ==
    /\ torrent = <<>>
    /\ scope = "small"
    /\ call = [p \in Procs |-> Off]
    /\ rpc = NewLookups

NextCache == SearchStream

CacheSpec == InitCache /\ [][NextCache]_vars

\* one call of score_file, every name, size and flag combination
InitScore ==
    /\ torrent = <<>>
    /\ scope = "small"
    /\ call = [p \in Procs |-> Off]
    /\ \E n \in ScoreNames \cup ResolutionNames, z \in SizeInputs, xh \in BOOLEAN, xe \in BOOLEAN, xd \in BOOLEAN :
         rpc = NewScore(n, z, xh, xe, xd)

NextScore == ScoreFile

ScoreSpec == InitScore /\ [][NextScore]_vars

(***************************************************************************)
(* Properties                                                              *)
(***************************************************************************)
Finished(c) == c.pc \in {"returned", "done"}

Has(seq, x) == \E i \in 1..Len(seq) : seq[i] = x

\* the file of the torrent with this id
FileById(id) == CHOOSE f \in Range(torrent) : f.id = id

\* score_file of a listed file under the flags of call c
ScoreOf(f, c) ==
    ScoreMemo[<<[name |-> f.name, size |-> f.size],
                <<c.exclude_hevc, c.exclude_eac3, c.exclude_dolby_vision>> >>]

\* the calls that obtain the final link
FinalizeCalls == {"links", "unrestrict", "requestdl"}

\* C1: a finished resolve call has exactly one outcome, a URL or an error; a
\* URL is the non-empty URL that the successful finalize step returned.
C1_OneOutcome ==
    \A p \in Procs :
        LET c == call[p] IN
        c.pc = "done" =>
            /\ (c.outcome.url # NoneStr) # (c.outcome.error # 0)
            /\ c.outcome.url # NoneStr =>
                 /\ c.exit = "Returned"
                 /\ c.outcome.url = c.stream_url
                 /\ c.outcome.url # ""
                 /\ c.calls[Len(c.calls)] \in {"unrestrict", "requestdl"}
                 /\ c.service = "rd" => c.outcome.url = "https://cdn/" \o c.final_link
                 /\ c.service = "tb" => c.outcome.url = TbUrl(c.sent_file_id)

C1_Witness ==
    \E p \in Procs : call[p].pc = "done" /\ call[p].outcome.url # NoneStr

\* C2: with season and episode given and a ranked video file matching the
\* episode, the id sent to select / requestdl is the first match in rank order
\* (stated for listings whose ids are all non-zero).
C2_EpisodeMatchSent ==
    \A p \in Procs :
        LET c == call[p]
            Match(i) == MatchesEpisode(c.video_files[i].name, c.season, c.episode)
        IN  ( /\ c.sent_file_id # NoneInt
              /\ \A f \in Range(torrent) : f.id # 0
              /\ c.season # NoneInt /\ c.episode # NoneInt
              /\ \E i \in 1..Len(c.video_files) : Match(i) )
            => \E i \in 1..Len(c.video_files) :
                  /\ Match(i)
                  /\ \A j \in 1..(i - 1) : ~Match(j)
                  /\ c.sent_file_id = c.video_files[i].id

\* C3: with a known cached set no file outside it is ranked, and when a cached
\* video file scores above -900 the chosen file is a cached one.
C3_CachedSelected ==
    \A p \in Procs :
        LET c == call[p]
            ids == c.cached_file_ids.ids
        IN  ( /\ c.service = "rd" /\ c.cached_file_ids.known
              /\ c.video_files # <<>> /\ c.exit # "NoFileId"
              /\ \E f \in Range(torrent) :
                    IsVideo(f) /\ ToString(f.id) \in ids /\ ScoreOf(f, c) > -900 )
            => /\ ToString(c.best_file_id) \in ids
               /\ \A f \in Range(c.video_files) : ToString(f.id) \in ids

\* cached set {1}, two equal video files 1 and 2, file 1 chosen
C3_Witness ==
    \E p \in Procs :
        LET c == call[p] IN
        /\ c.service = "rd" /\ c.cached_file_ids.known /\ c.cached_file_ids.ids = {"1"}
        /\ Len(torrent) = 2 /\ torrent[1].id = 1 /\ torrent[2].id = 2
        /\ torrent[1].name = torrent[2].name /\ IsVideo(torrent[1])
        /\ ScoreOf(torrent[1], c) > -900
        /\ c.best_file_id = 1 /\ c.pc = "rd_links"

\* C4 as claimed: the chosen file is never one that score_file answers -1000.
C4_ExcludedNeverSelected ==
    \A p \in Procs :
        LET c == call[p] IN
        (c.video_files # <<>> /\ Truthy(c.best_file_id))
            => ScoreOf(FileById(c.best_file_id), c) # -1000

\* C4 as amended: the chosen file is not a hard-excluded one as long as some
\* video file passed the score filter; only the fallback can choose one.
C4_ExcludedOnlyByFallback ==
    \A p \in Procs :
        LET c == call[p] IN
        (c.video_files # <<>> /\ Truthy(c.best_file_id) /\ c.ranked)
            => ScoreOf(FileById(c.best_file_id), c) # -1000

C4_Witness ==
    \E p \in Procs :
        LET c == call[p] IN
        /\ c.ranked /\ Truthy(c.best_file_id) /\ c.sent_file_id = c.best_file_id
        /\ \E f \in Range(torrent) :
              /\ IsVideo(f) /\ ScoreOf(f, c) = -1000
              /\ c.season # NoneInt /\ MatchesEpisode(f.name, c.season, c.episode)

\* C5: a call whose status fetches were all answered without a file list ends
\* at the hydration exit after 15 (Real-Debrid) or 30 (TorBox) fetches, with
\* no URL and without a select or finalize call.
C5_HydrationTimeout ==
    \A p \in Procs :
        LET c == call[p] IN
        (Finished(c) /\ Has(c.calls, "status") /\ ~c.got_files /\ c.exit # "Exception")
            => /\ c.exit = "HydrationTimeout"
               /\ c.attempt = IF c.service = "rd" THEN 15 ELSE 30
               /\ c.stream_url = NoneStr
               /\ ~Has(c.calls, "select")
               /\ \A k \in FinalizeCalls : ~Has(c.calls, k)

C5_Witness ==
    \E p \in Procs :
        LET c == call[p] IN
        /\ c.pc = "done" /\ c.service = "tb" /\ c.exit = "HydrationTimeout"
        /\ ~c.got_files /\ c.attempt = 30 /\ c.outcome.error # 0

\* the place of a provider call in the order pre-check, add, status, select, finalize
CallRank(k) ==
    IF k = "availability" THEN 1
    ELSE IF k = "add" THEN 2
    ELSE IF k = "status" THEN 3
    ELSE IF k = "select" THEN 4
    ELSE 5

\* C7: the provider calls of a resolve call come in the order pre-check, add,
\* status polls, select, finalize, with a single add.
C7_CallOrder ==
    \A p \in Procs :
        LET c == call[p] IN
        /\ c.adds <= 1
        /\ \A i \in 1..Len(c.calls) : \A j \in 1..Len(c.calls) :
              i < j => CallRank(c.calls[i]) <= CallRank(c.calls[j])

\* C9: once a link poll has shown the torrent downloading the call has
\* returned None at the not-cached exit and has made no unrestrict call.
C9_NotCached ==
    \A p \in Procs :
        LET c == call[p] IN
        c.seen_downloading =>
            /\ Finished(c) /\ c.exit = "NotCached" /\ c.stream_url = NoneStr
            /\ ~Has(c.calls, "unrestrict")
            /\ c.calls[Len(c.calls)] = "links"

C9_Witness ==
    \E p \in Procs :
        call[p].seen_downloading /\ call[p].pc = "done" /\ call[p].outcome.error = -32001

\* C10: after an add answer with a non-2xx status, success:false or no
\* torrent id the call has returned None at the add exit, the add being its
\* last provider call.
C10_AddFailed ==
    \A p \in Procs :
        LET c == call[p] IN
        c.add_refused =>
            /\ Finished(c) /\ c.exit = "AddFailed" /\ c.stream_url = NoneStr
            /\ c.calls[Len(c.calls)] = "add"
            /\ c.sent_file_id = NoneInt

C10_Witness ==
    \E p \in Procs :
        LET c == call[p] IN
        c.add_refused /\ c.pc = "done" /\ c.adds = 1 /\ ~Has(c.calls, "status")

\* C6: every resolve call terminates, no loop running past its attempt budget.
C6_Terminates ==
    /\ [](\A p \in Procs :
            call[p].attempt <= IF call[p].service = "rd" THEN 15 ELSE 30)
    /\ <>(\A p \in Procs : call[p].pc \in {"off", "done"})

\* a call done after using up the ten link polls
C6_Witness ==
    \E p \in Procs :
        LET c == call[p] IN
        c.pc = "done" /\ c.exit = "LinkGenerationFailed" /\ c.attempt = 10

\* the arguments of two calls are the same
SameArgs(c, d) ==
    /\ c.service = d.service /\ c.api_key = d.api_key
    /\ c.info_hash = d.info_hash /\ c.magnet = d.magnet
    /\ c.season = d.season /\ c.episode = d.episode
    /\ c.exclude_hevc = d.exclude_hevc /\ c.exclude_eac3 = d.exclude_eac3
    /\ c.exclude_dolby_vision = d.exclude_dolby_vision

\* every call that got past the add stage has issued an add of its own
OwnAdd ==
    \A p \in Procs :
        LET c == call[p] IN
        (c.torrent_id # NoneStr \/ Has(c.calls, "status") \/ c.pc = "done")
            => c.adds >= 1 /\ Has(c.calls, "add")

\* two finished calls with the same arguments, answered alike, ended alike
SameOutcome ==
    \A p \in Procs : \A q \in Procs :
        (call[p].pc = "done" /\ call[q].pc = "done" /\ SameArgs(call[p], call[q]))
            => /\ call[p].outcome = call[q].outcome
               /\ call[p].exit = call[q].exit
               /\ call[p].calls = call[q].calls
               /\ call[p].sent_file_id = call[q].sent_file_id

\* a step of one call leaves the record of every other call as it was
OwnStateOnly ==
    \A p \in Procs :
        call'[p] # call[p] => \A q \in Procs \ {p} : call'[q] = call[q]

\* C8: two calls for the same info-hash running concurrently each issue their
\* own add, never change each other's state, and end as their own arguments
\* and answers decide, whatever the interleaving.
C8_Independent == [](OwnAdd /\ SameOutcome) /\ [][OwnStateOnly]_vars

\* two calls with the same arguments both done with a URL, each after an add
\* of its own
C8_Witness ==
    /\ \A p \in Procs : call[p].pc = "done" /\ call[p].adds >= 1
    /\ SameArgs(call[1], call[2])
    /\ call[1].outcome.url # NoneStr /\ call[2].outcome.url # NoneStr

\* C11: the file whose id is sent to the provider is a video file, and a call
\* that was shown a file list without video files ends at the no-video exit
\* without a select or finalize call.
C11_VideoOnly ==
    \A p \in Procs :
        LET c == call[p] IN
        /\ (c.sent_file_id # NoneInt /\ \E f \in Range(torrent) : f.id = c.sent_file_id)
              => IsVideo(FileById(c.sent_file_id))
        /\ ( /\ Finished(c) /\ c.got_files /\ c.exit # "Exception"
             /\ torrent # <<>> /\ VideoFiles(torrent) = <<>> )
              => /\ c.exit = "NoVideoFiles"
                 /\ c.sent_file_id = NoneInt
                 /\ ~Has(c.calls, "select")
                 /\ \A k \in FinalizeCalls : ~Has(c.calls, k)

\* the availability answer is a transport error, a non-200 answer or an
\* answer without the hash
PrecheckFails(ans) == ans.kind = "exc" \/ ans.status_code # 200 \/ ~ans.has_hash

\* the candidates and the file id chosen from the shown listing by score and
\* episode alone
PlainCandidates(c) ==
    LET video == VideoFiles(torrent)
        Score(f) == ScoreOf(f, c)
        Kept(f) == Score(f) > -900
        kept == SortDesc(SelectSeq(video, Kept), Score)
    IN  IF kept # <<>> THEN kept ELSE SortDesc(video, FileSize)

PlainChoice(c) == RdBestFileId(PlainCandidates(c), c.season, c.episode)

\* C12: a failing pre-check leaves the cached set unknown; the call then goes
\* on to the add, no candidate is dropped for a -2000 score and the file
\* chosen is the one score and episode alone decide.
C12_PrecheckNotFatal ==
    /\ \A ans \in AvailAnswers : PrecheckFails(ans) => ~_get_cached_file_ids(ans).known
    /\ \A p \in Procs :
          LET c == call[p] IN
          (c.service = "rd" /\ Has(c.calls, "availability") /\ ~c.cached_file_ids.known)
              => /\ c.pc = "rd_add" \/ Has(c.calls, "add")
                 /\ c.video_files # <<>> =>
                       /\ c.video_files = PlainCandidates(c)
                       /\ c.best_file_id = PlainChoice(c)

\* after a failed pre-check a call chose among two candidates and returned a URL
C12_Witness ==
    \E p \in Procs :
        LET c == call[p] IN
        /\ c.service = "rd" /\ ~c.cached_file_ids.known /\ Has(c.calls, "availability")
        /\ Len(c.video_files) = 2 /\ c.ranked
        /\ Has(c.calls, "select") /\ c.pc = "done" /\ c.outcome.url # NoneStr

\* the failures of a resolution that the error taxonomy tells apart
FailureKinds ==
    {"AddFailed", "HydrationTimeout", "NoVideoFiles", "NotCached", "LinkGenerationFailed"}

\* C13: the response to a call that failed in one of these ways differs from
\* the response the same call would get had it failed in another of them.
C13_KindReported ==
    \A p \in Procs :
        LET c == call[p] IN
        (c.pc = "done" /\ c.exit \in FailureKinds)
            => \A k \in FailureKinds \ {c.exit} :
                  ResolveResponse(Ret(c, k, NoneStr)) # c.outcome

\* C14: the resolve tool resolves with the request's TorBox key when it has
\* one, else with the request's Real-Debrid key, else with a key of the
\* settings, each with the adapter of that key; with no key at all it
\* answers error -32000 and no adapter is entered, so no provider is called.
C14_KeyPriority ==
    (rpc.tool = "resolve" /\ rpc.pc # "select") =>
        LET k == rpc.api_keys
            e == rpc.settings
            Picked(service, key) == rpc.debrid_service = service /\ rpc.api_key = key
            NoRequestKey == ~TruthyStr(k.torbox) /\ ~TruthyStr(k.realdebrid)
            NoKey == /\ NoRequestKey
                     /\ ~TruthyStr(e.TORBOX_API_KEY) /\ ~TruthyStr(e.REALDEBRID_API_KEY)
        IN /\ TruthyStr(k.torbox) => Picked("tb", k.torbox)
           /\ (~TruthyStr(k.torbox) /\ TruthyStr(k.realdebrid)) => Picked("rd", k.realdebrid)
           /\ (NoRequestKey /\ ~NoKey) =>
                 \/ TruthyStr(e.TORBOX_API_KEY) /\ Picked("tb", e.TORBOX_API_KEY)
                 \/ TruthyStr(e.REALDEBRID_API_KEY) /\ Picked("rd", e.REALDEBRID_API_KEY)
           /\ NoKey => /\ rpc.pc \in {"check", "done"}
                       /\ rpc.pc = "done" => rpc.response.error = -32000
                       /\ \A p \in Procs : call[p] = Off
           /\ \A p \in Procs : call[p].pc # "off" =>
                 call[p].service = rpc.debrid_service /\ call[p].api_key = rpc.api_key

\* a request carrying both keys, with both settings present, has called TorBox
C14_Witness ==
    /\ rpc.tool = "resolve"
    /\ TruthyStr(rpc.api_keys.torbox) /\ TruthyStr(rpc.api_keys.realdebrid)
    /\ TruthyStr(rpc.settings.TORBOX_API_KEY) /\ TruthyStr(rpc.settings.REALDEBRID_API_KEY)
    /\ call[1].service = "tb" /\ call[1].api_key = "tb-req"
    /\ Has(call[1].calls, "add") /\ call[1].pc = "done"

\* the tier whose query was the last one, 0 before the first query
LastTier == IF rpc.queried = <<>> THEN 0 ELSE rpc.queried[Len(rpc.queried)]

\* C15: a search queries the tiers in order and never queries another tier
\* after one that yielded a non-empty list; what it returns is the list of
\* the last tier queried (passed through the acceptance filter when that is
\* tier 3), so never items of two tiers.
C15_StopsAtFirstYield ==
    rpc.tool = "search" =>
        /\ \A i \in 1..Len(rpc.queried) :
              /\ rpc.answers[i] # <<>> => i = Len(rpc.queried)
              /\ \A j \in 1..(i - 1) : rpc.queried[j] < rpc.queried[i]
        /\ rpc.response.sent =>
              LET last == rpc.answers[Len(rpc.answers)] IN
              /\ rpc.queried # <<>>
              /\ rpc.response.streams =
                    IF LastTier = 3 THEN Filtered(last, rpc.season, rpc.episode) ELSE last

\* the structured query found nothing, the string query did, and its list was sent
C15_Witness ==
    /\ rpc.tool = "search" /\ rpc.response.sent
    /\ rpc.queried = <<1, 2>>
    /\ rpc.answers = << <<>>, <<"Foo S01E05", "Foo 1x05", "Foo S01E02">> >>
    /\ rpc.response.streams = <<"Foo S01E05", "Foo 1x05", "Foo S01E02">>

\* C16: when the results sent come from the title-only query of a search
\* with a target season, no result's title shows a season other than the
\* target season.
C16_SeasonAgrees ==
    (rpc.tool = "search" /\ rpc.response.sent /\ LastTier = 3 /\ rpc.season # NoneInt) =>
        \A i \in 1..Len(rpc.response.streams) :
            LET detected == DetectMemo[rpc.response.streams[i]].season
            IN  detected = NoneInt \/ detected = rpc.season

\* the episode number that follows an 'E' or an 'x' in a title as listed
MarkedEpisode(t) == EpisodeAfter(t, {"E", "x"})

\* C17: when the results sent come from the title-only query of a search
\* with a target season and episode, no result's title shows, after an 'E'
\* or an 'x', an episode number other than the target episode.
C17_EpisodeAgrees ==
    (/\ rpc.tool = "search" /\ rpc.response.sent /\ LastTier = 3
     /\ rpc.season # NoneInt /\ rpc.episode # NoneInt) =>
        \A i \in 1..Len(rpc.response.streams) :
            LET detected == MarkedEpisode(rpc.response.streams[i])
            IN  detected = NoneInt \/ detected = rpc.episode

\* C18: a query of the index that failed in transport is the last query of
\* its search, and the search answers with an error.
C18_FailureTerminal ==
    (rpc.tool = "search" /\ rpc.raised # {}) =>
        /\ \A i \in 1..Len(rpc.queried) : rpc.queried[i] \in rpc.raised => i = Len(rpc.queried)
        /\ rpc.response.sent => rpc.response.error # 0

\* C19: from one listing with video files, the file a TorBox call asks the
\* download of is the file a Real-Debrid call with the same flags and the
\* same season and episode, and no availability information, selects.
C19_SameSelection ==
    \A p \in Procs :
        LET c == call[p] IN
        (/\ c.service = "tb" /\ c.magnet # ForeignMagnet
         /\ c.sent_file_id # NoneInt /\ VideoFiles(torrent) # <<>>)
            => c.sent_file_id = PlainChoice(c)

\* the exclusion flags of a score_file call that the name's detected
\* attributes fall under
Excluding(r) ==
    \/ r.exclude_hevc /\ "hevc" \in get_codecs(r.filename)
    \/ r.exclude_eac3 /\ get_audio(r.filename) \cap {"eac3", "atmos"} # {}
    \/ r.exclude_dolby_vision /\ get_hdr(r.filename) \cap {"dolby_vision", "hdr10+"} # {}

\* C20: score_file answers -1000 whenever a flag is set whose attribute the
\* file name carries (hevc codec; eac3 or atmos audio; Dolby Vision or
\* HDR10+), whatever the size and the other tokens; with no flag set it
\* never answers -1000.
C20_HardFilter ==
    (rpc.tool = "score" /\ rpc.pc = "done") =>
        /\ Excluding(rpc) => rpc.score = -1000
        /\ (~rpc.exclude_hevc /\ ~rpc.exclude_eac3 /\ ~rpc.exclude_dolby_vision)
              => rpc.score # -1000

\* C21: a call of score_file raises nothing and answers an integer for
\* every file name and every size argument; an absent, null or string size
\* is scored as size 0.
C21_Total ==
    (rpc.tool = "score" /\ rpc.pc = "done") =>
        /\ rpc.raised = NoneStr
        /\ rpc.size.kind # "int" =>
              rpc.score = score_file(rpc.filename, 0, rpc.exclude_hevc,
                                     rpc.exclude_eac3, rpc.exclude_dolby_vision)

\* a lower and the next higher resolution token
ResolutionSteps ==
    { <<"720p", "1080p">>, <<"1080p", "2160p">>, <<"1080p", "4k">>, <<"1080p", "UHD">> }

\* the call of score_file that differs from the call r in the file name only
Sibling(r, filename) ==
    score_call(filename, r.size, r.exclude_hevc, r.exclude_eac3, r.exclude_dolby_vision)

SameAttributes(a, b) ==
    get_source(a) = get_source(b) /\ get_audio(a) = get_audio(b) /\ get_hdr(a) = get_hdr(b)

\* C22: of two names that differ in the resolution token only and show the
\* same source, audio and HDR, scored with the same size and flags, the
\* one with the higher resolution scores at least as high (1080p against
\* 720p, 4K against 1080p).
C22_ResolutionMonotonic ==
    (rpc.tool = "score" /\ rpc.pc = "done" /\ rpc.raised = NoneStr) =>
        \A st \in Stems, step \in ResolutionSteps :
            (/\ rpc.filename = WithRes(st, step[1])
             /\ SameAttributes(WithRes(st, step[1]), WithRes(st, step[2])))
                => /\ Sibling(rpc, WithRes(st, step[2])).raised = NoneStr
                   /\ rpc.score <= Sibling(rpc, WithRes(st, step[2])).value

\* a 720p name has been scored strictly below its 1080p sibling
C22_Witness ==
    /\ rpc.tool = "score" /\ rpc.pc = "done"
    /\ rpc.filename = "Movie.720p.BluRay.Atmos.mkv"
    /\ rpc.size = [kind |-> "int", mib |-> 2048]
    /\ rpc.score = 172
    /\ Sibling(rpc, "Movie.1080p.BluRay.Atmos.mkv").value = 222

\* C30: a call of score_file that no hard filter answers yields -500
\* exactly when the file name holds one of cam, telesync, camrip, sample.
C30_JunkTokens ==
    (rpc.tool = "score" /\ rpc.pc = "done" /\ rpc.raised = NoneStr /\ rpc.score # -1000) =>
        (rpc.score = -500 <=>
            AnyIn(lower(rpc.filename), {"cam", "telesync", "camrip", "sample"}))

\* the video files of the torrent, largest first
BySize == SortDesc(VideoFiles(torrent), FileSize)

\* whether call c names an episode, and whether file f is of that episode
HasTarget(c) == c.season # NoneInt /\ c.episode # NoneInt
OfEpisode(f, c) == HasTarget(c) /\ MatchesEpisode(f.name, c.season, c.episode)

\* the first file of a list that is of the episode of c, else the first file
FirstMatchOrTop(fs, c) ==
    IF \E i \in 1..Len(fs) : OfEpisode(fs[i], c)
    THEN fs[CHOOSE i \in 1..Len(fs) :
                OfEpisode(fs[i], c) /\ \A j \in 1..(i - 1) : ~OfEpisode(fs[j], c)].id
    ELSE fs[1].id

\* C23: a Real-Debrid call whose video files were all discarded by the
\* score filter does not fail for it: its candidates are all video files,
\* largest first, and it selects the first episode match of that order,
\* or the largest file.
C23_FallbackBySize ==
    \A p \in Procs :
        LET c == call[p] IN
        (c.service = "rd" /\ c.video_files # <<>> /\ ~c.ranked) =>
            /\ c.video_files = BySize
            /\ c.best_file_id = FirstMatchOrTop(BySize, c)
            /\ c.exit # "NoFileId"

\* the video files of the torrent that the ranking loop of call c scores
\* -500, and those it scores 0 or more
JunkFiles(c) == { f \in Range(VideoFiles(torrent)) : RdScore(f, c) = -500 }
GoodFiles(c) == { f \in Range(VideoFiles(torrent)) : RdScore(f, c) >= 0 }

\* C24 as stated: the ranked list of a Real-Debrid call holds no file scored
\* -500, so such a file is selected through the fallback only.
C24_JunkDiscarded ==
    \A p \in Procs :
        LET c == call[p] IN
        (c.service = "rd" /\ c.video_files # <<>> /\ c.ranked) =>
            /\ Range(c.video_files) \cap JunkFiles(c) = {}
            /\ Truthy(c.best_file_id) => FileById(c.best_file_id) \notin JunkFiles(c)

\* C24 as amended: the ranked list keeps the files scored -500, after every
\* file scored 0 or more; while such a better file exists a -500 file is
\* selected only as an episode match, when no better file with a non-zero
\* id is of the episode.
C24_JunkRankedLast ==
    \A p \in Procs :
        LET c == call[p]
            vf == c.video_files
        IN
        (c.service = "rd" /\ vf # <<>> /\ c.ranked) =>
            /\ JunkFiles(c) \subseteq Range(vf)
            /\ \A i, j \in 1..Len(vf) :
                  (vf[i] \in JunkFiles(c) /\ vf[j] \in GoodFiles(c)) => j < i
            /\ ( /\ Truthy(c.best_file_id)
                 /\ FileById(c.best_file_id) \in JunkFiles(c)
                 /\ GoodFiles(c) # {} )
                  => /\ OfEpisode(FileById(c.best_file_id), c)
                     /\ \A f \in GoodFiles(c) : OfEpisode(f, c) => f.id = 0

\* a CAM file of the episode was sent for selection although a file of
\* another episode with a score above 0 was listed
C24_Witness ==
    \E p \in Procs :
        LET c == call[p] IN
        /\ c.service = "rd" /\ c.ranked /\ Truthy(c.best_file_id)
        /\ c.sent_file_id = c.best_file_id
        /\ FileById(c.best_file_id).name = "Show.S01E02.CAM.mkv"
        /\ \E f \in GoodFiles(c) : f.name = "Show.S01E01.720p.mkv"

\* C25 as stated: when the file a Real-Debrid call selects is of the target
\* episode, no candidate of another episode has a higher score.
C25_HigherScoreWins ==
    \A p \in Procs :
        LET c == call[p] IN
        ( /\ c.service = "rd" /\ c.video_files # <<>> /\ Truthy(c.best_file_id)
          /\ OfEpisode(FileById(c.best_file_id), c) )
            => \A f \in Range(c.video_files) :
                  ~OfEpisode(f, c) => RdScore(f, c) <= RdScore(FileById(c.best_file_id), c)

\* C25 as amended: when a candidate with a non-zero id is of the target
\* episode, the file selected is the first such candidate in ranked order,
\* whatever the scores of the candidates of other episodes.
C25_EpisodeMatchFirst ==
    \A p \in Procs :
        LET c == call[p]
            vf == c.video_files
            Hit(i) == OfEpisode(vf[i], c) /\ vf[i].id # 0
        IN
        (c.service = "rd" /\ vf # <<>> /\ \E i \in 1..Len(vf) : Hit(i)) =>
            \E i \in 1..Len(vf) :
                /\ Hit(i) /\ \A j \in 1..(i - 1) : ~Hit(j)
                /\ c.best_file_id = vf[i].id

\* the x265 file of the episode was sent for selection although the file of
\* another episode scores higher
C25_Witness ==
    \E p \in Procs :
        LET c == call[p] IN
        /\ c.service = "rd" /\ c.ranked /\ Truthy(c.best_file_id)
        /\ c.sent_file_id = c.best_file_id
        /\ OfEpisode(FileById(c.best_file_id), c)
        /\ \E f \in Range(c.video_files) :
              ~OfEpisode(f, c) /\ RdScore(f, c) > RdScore(FileById(c.best_file_id), c)

\* C26: a call that names no episode, or whose candidates hold no file of
\* the episode it names, selects the first file of its candidate list and
\* does not end for want of a file.  (best_file_id is None again when the
\* second listing of a TorBox call came empty.)
C26_TopWhenNoMatch ==
    \A p \in Procs :
        LET c == call[p] IN
        (c.video_files # <<>> /\ \A f \in Range(c.video_files) : ~OfEpisode(f, c))
            => /\ c.exit # "NoFileId"
               /\ c.best_file_id # NoneInt => c.best_file_id = c.video_files[1].id

\* the position of a tier in the queries of the search, 0 when not queried
QueryOf(tier) ==
    IF Has(rpc.queried, tier)
    THEN CHOOSE i \in 1..Len(rpc.queried) : rpc.queried[i] = tier
    ELSE 0

\* C27: a search that has answered queried tier 2 exactly if tier 1 found
\* nothing and the request is a show with a season and an episode; the
\* tier-2 query is the title followed by S and E with two-digit numbers
\* ("Foo S01E02") and carries no year, IMDB id, season or episode.
C27_StringFallback ==
    (rpc.tool = "search" /\ rpc.response.sent) =>
        /\ Has(rpc.queried, 2) <=>
              /\ rpc.answers[1] = <<>>
              /\ rpc.type = "show" /\ rpc.season # NoneInt /\ rpc.episode # NoneInt
        /\ Has(rpc.queried, 2) =>
              LET key == rpc.keys[QueryOf(2)] IN
              /\ key[1] = Title \o " S" \o Pad2(rpc.season) \o "E" \o Pad2(rpc.episode)
              /\ (rpc.season = 1 /\ rpc.episode = 2) => key[1] = "Foo S01E02"
              /\ Params(key) = [Query |-> key[1], Year |-> NoneInt, ImdbId |-> NoneStr,
                                Season |-> NoneInt, Episode |-> NoneInt]

\* C28: tier 3 is queried only after tier 2 was queried and found nothing,
\* never directly after tier 1.
C28_DesperationAfterFallback ==
    (rpc.tool = "search" /\ Has(rpc.queried, 3)) =>
        /\ Has(rpc.queried, 2)
        /\ QueryOf(2) < QueryOf(3)
        /\ rpc.answers[QueryOf(2)] = <<>>

\* what the detectors of the filter find in neither way
Undetected(t) == DetectMemo[t].season = NoneInt /\ DetectMemo[t].episode = NoneInt

\* a season pack of the target season: that season and no episode detected
SeasonPack(t) == DetectMemo[t].season = rpc.season /\ DetectMemo[t].episode = NoneInt

\* C29: of the items the title-only query found, every one in which neither
\* a season nor an episode is detected, and every one whose detected season
\* is the target with no episode detected, is among the streams returned.
C29_Permissive ==
    (rpc.tool = "search" /\ rpc.response.sent /\ LastTier = 3) =>
        LET found == rpc.answers[Len(rpc.answers)] IN
        \A i \in 1..Len(found) :
            (Undetected(found[i]) \/ SeasonPack(found[i])) => Has(rpc.response.streams, found[i])

\* a search for S1E2 whose title-only query found a bare title, a pack of
\* season 1 and an episode of season 2, and returned the first two
C29_Witness ==
    /\ rpc.tool = "search" /\ rpc.response.sent /\ LastTier = 3
    /\ rpc.season = 1 /\ rpc.episode = 2
    /\ rpc.answers[Len(rpc.answers)] = <<"Foo", "Foo Season 1", "Foo S02E02">>
    /\ Undetected("Foo") /\ SeasonPack("Foo Season 1")
    /\ rpc.response.streams = <<"Foo", "Foo Season 1">>

\* the points of each attribute of a file name, and of a size in MiB
QualityPoints(filename) ==
    CASE get_quality(filename) = "4K" -> 200
      [] get_quality(filename) = "1080p" -> 100
      [] get_quality(filename) = "720p" -> 50
      [] OTHER -> 0

SourcePoints(filename) ==
    CASE get_source(filename) = "remux" -> 100
      [] get_source(filename) = "bluray" -> 80
      [] get_source(filename) = "web" -> 50
      [] OTHER -> 0

AudioPoints(filename) ==
    IF get_audio(filename) \cap {"atmos", "truehd", "dts-x"} # {} THEN 40
    ELSE IF "eac3" \in get_audio(filename) THEN 20 ELSE 0

HdrPoints(filename) ==
    (IF "dolby_vision" \in get_hdr(filename) THEN 50 ELSE 0)
    + (IF get_hdr(filename) \cap {"hdr10", "hdr10+"} # {} THEN 30 ELSE 0)

SizeBonus(mib) == Min(mib \div 1024, 50)

\* C31: a file that no set flag excludes and that holds none of the junk
\* tokens cam, telesync, camrip, sample is scored the sum of its quality,
\* source, audio and HDR points and of one point per whole GiB of size,
\* at most 50.
C31_AdditiveScore ==
    (/\ rpc.tool = "score" /\ rpc.pc = "done" /\ rpc.size.kind = "int"
     /\ ~Excluding(rpc)
     /\ ~AnyIn(lower(rpc.filename), {"cam", "telesync", "camrip", "sample"})) =>
        /\ rpc.raised = NoneStr
        /\ SizeBonus(rpc.size.mib) <= 50
        /\ rpc.score = QualityPoints(rpc.filename) + SourcePoints(rpc.filename)
                          + AudioPoints(rpc.filename) + HdrPoints(rpc.filename)
                          + SizeBonus(rpc.size.mib)

\* C32: every add a call sends carries the magnet the caller gave, and the
\* magnet made of the info hash only when the caller gave none or "".
C32_MagnetSent ==
    \A p \in Procs :
        LET c == call[p] IN
        \A i \in 1..Len(c.add_magnets) :
            c.add_magnets[i] = IF c.magnet # "" THEN c.magnet
                               ELSE "magnet:?xt=urn:btih:" \o c.info_hash

\* the place in the calls of c of its i-th add
AddPos(c, i) ==
    CHOOSE k \in 1..Len(c.calls) :
        /\ c.calls[k] = "add"
        /\ Cardinality({ j \in 1..k : c.calls[j] = "add" }) = i

\* the call that followed the i-th add of c, "" when none has
AfterAdd(c, i) ==
    IF AddPos(c, i) < Len(c.calls) THEN c.calls[AddPos(c, i) + 1] ELSE ""

\* C33: the add of a TorBox call whose answer holds a non-empty file list is
\* not followed by a list poll, and the add whose answer holds none is
\* followed by one.
C33_EmbeddedFilesSkipPoll ==
    \A p \in Procs :
        LET c == call[p] IN
        \A i \in 1..Len(c.add_embedded) :
            /\ c.add_embedded[i] => AfterAdd(c, i) # "status"
            /\ (~c.add_embedded[i] /\ (AfterAdd(c, i) # "" \/ Finished(c)))
                  => AfterAdd(c, i) = "status"

\* the number written at position i of s, None when no digit stands there
NumAt(s, i) ==
    IF DigitRun(s, i, 4) > 0 THEN ToInt(Sub(s, i, i + DigitRun(s, i, 4) - 1)) ELSE NoneInt

\* the file name holds S<season>E<episode> or <season>x<episode> with these
\* very numbers, padded or not
Names(fname, season, episode) ==
    LET s == upper(fname) IN
    \E i \in 1..Len(s) :
        \/ /\ At(s, i) = "S" /\ NumAt(s, i + 1) = season
           /\ At(s, i + 1 + DigitRun(s, i + 1, 4)) = "E"
           /\ NumAt(s, i + 2 + DigitRun(s, i + 1, 4)) = episode
        \/ /\ ~IsDigit(At(s, i - 1)) /\ NumAt(s, i) = season
           /\ At(s, i + DigitRun(s, i, 4)) = "X"
           /\ NumAt(s, i + 1 + DigitRun(s, i, 4)) = episode

NamesMemo ==
    Eager([k \in CatalogNames \X { u \in Targets : u[1] # NoneInt /\ u[2] # NoneInt } |->
              Names(k[1], k[2][1], k[2][2])])

NamesEpisode(f, c) == HasTarget(c) /\ NamesMemo[<<f.name, <<c.season, c.episode>> >>]

\* C34: a candidate counts as a match of the target only if its name holds
\* the target's season and episode numbers, no longer ones; the file the
\* episode selection of a call picks (Real-Debrid, and TorBox before its
\* second add) is of the target episode whenever a candidate is.
C34_ExactEpisode ==
    \A p \in Procs :
        LET c == call[p] IN
        (HasTarget(c) /\ c.video_files # <<>>) =>
            /\ \A f \in Range(c.video_files) : OfEpisode(f, c) => NamesEpisode(f, c)
            /\ (/\ c.service = "rd" \/ c.pc = "tb_add2"
                /\ Truthy(c.best_file_id)
                /\ \E f \in Range(c.video_files) : NamesEpisode(f, c))
                  => NamesEpisode(FileById(c.best_file_id), c)

\* C35: the id of a file has no part in its selection: a call that has video
\* files never ends for want of a file id, and a Real-Debrid call selects
\* the first episode match of its candidates, or the first candidate, also
\* when that file has id 0.
C35_IdZeroSelected ==
    \A p \in Procs :
        LET c == call[p] IN
        c.video_files # <<>> =>
            /\ c.exit # "NoFileId"
            /\ c.service = "rd" => c.best_file_id = FirstMatchOrTop(c.video_files, c)

\* C36: the link a Real-Debrid call unrestricts, and the URL it returns,
\* are those of the file it selected, whether or not it sent selectFiles.
C36_LinkOfSelectedFile ==
    \A p \in Procs :
        LET c == call[p] IN
        (c.service = "rd" /\ c.final_link # NoneStr) =>
            /\ c.final_link = RdLink(c.best_file_id)
            /\ TruthyStr(c.stream_url) => c.stream_url = "https://cdn/" \o RdLink(c.best_file_id)

\* C37: of the calls of search_stream made so far, a call with the
\* arguments of an earlier one answers the list of the earlier one and
\* sends no request: one request is sent per different argument tuple, and
\* a call that repeats one that raised answers [] without raising.
C37_CachedPerKey ==
    rpc.tool = "lookup" =>
        /\ \A i \in 1..Len(rpc.keys) : \A j \in (i + 1)..Len(rpc.keys) :
              rpc.keys[i] = rpc.keys[j] =>
                  /\ rpc.answers[j] = rpc.answers[i]
                  /\ j \notin rpc.raised
                  /\ i \in rpc.raised => rpc.answers[j] = <<>>
        /\ Len(rpc.requests) = Cardinality(Range(rpc.keys))

\* a query that raised, repeated: both answer [], one request was sent
C37_Witness ==
    /\ rpc.tool = "lookup"
    /\ rpc.keys = << <<Title, NoneInt, NoneStr, 1, 2>>, <<Title, NoneInt, NoneStr, 1, 2>> >>
    /\ rpc.raised = {1}
    /\ rpc.answers = << <<>>, <<>> >>
    /\ Len(rpc.requests) = 1

\* C38: score_file called with a size that is a non-negative integer (or
\* left out) answers -1000, -500 or a number of 0..470: every score is above
\* the penalty of a file that is not cached, and every negative score is at
\* most -500.
C38_ScoreRange ==
    (rpc.tool = "score" /\ rpc.pc = "done" /\ rpc.size.kind \in {"int", "absent"}) =>
        /\ rpc.raised = NoneStr
        /\ rpc.score \in {-1000, -500} \cup 0..470
        /\ CachedPenalty < rpc.score
        /\ rpc.score < 0 => rpc.score <= -500

\* the highest score: 4K remux with TrueHD, Dolby Vision and HDR10, 60 GiB
C38_Witness ==
    /\ rpc.tool = "score" /\ rpc.pc = "done"
    /\ rpc.filename = "Movie.2160p.REMUX.TrueHD.DV.HDR10.mkv"
    /\ rpc.size = [kind |-> "int", mib |-> 61440]
    /\ rpc.score = 470
====
